---- MODULE Spec2Model ----
(***************************************************************************)
(* Verification model of the ChemicAlly calculators:                       *)
(*   - DilutionCalculator.calculate   (apps/webapp/calculations/base.py)   *)
(*   - SolutionForm.clean             (apps/webapp/forms.py)               *)
(*   - FormulaListField.parse_list    (apps/webapp/forms.py)               *)
(*   - FormulaListField.validate/clean (apps/webapp/forms.py)              *)
(*   - smiles_to_formula              (apps/webapp/utils/formula.py)       *)
(*   - MolecularWeightCalculator, ReactionBalancer (calculations/base.py)  *)
(*   - ChemicalReactionForm           (apps/webapp/forms.py)               *)
(*   - add_previous_substances        (chemically/webapp/utils)            *)
(*   - CalculateDilutionView.process_calculation (chemically/webapp/views) *)
(* Magnitudes are exact rationals num/den * 10^mexp (the code uses floats);*)
(* a unit is kept as its power of ten relative to the base unit (upow) and *)
(* its dimension (exponents of mole and liter), which is what pint's       *)
(* arithmetic and conversions depend on.                                   *)
(***************************************************************************)
EXTENDS Integers, Sequences, FiniteSets, TLC

VARIABLES
    pc,        \* position of the request: "input", "calculated", "cleaned", "parsed"
    post,      \* submitted dilution data: slot -> [given, val, unit]
    args,      \* molecular_weight / solute_formula handed to calculate
    result,    \* outcome of DilutionCalculator.calculate
    form,      \* outcome of SolutionForm full_clean (field errors, clean() error)
    raw,       \* text handed to FormulaListField.parse_list
    tokens,    \* the species tokens raw was assembled from
    seps,      \* the separators raw was assembled with
    parts,     \* list returned by parse_list
    mol,       \* decoded SMILES graph: atom count per element, total charge
    rendered,  \* formula text rendered by smiles_to_formula
    field,     \* outcome of FormulaListField.clean on raw
    again,     \* outcome of FormulaListField.clean on its own joined output
    calc,      \* call and outcome of a calculator's calculate
    rdata,     \* data submitted to ChemicalReactionForm
    rform,     \* ChemicalReactionForm after __init__ and full_clean
    session,   \* request.session["previous_substances"]
    substances, \* argument of the last add_previous_substances call
    view,      \* outcome of CalculateDilutionView.process_calculation
    legacy,    \* outcome of the unit-less dilution functions
    dash,      \* DashboardView: the stored context, the last request and response
    reqs       \* requests in flight on one session: position, argument, list read

vars == <<pc, post, args, result, form, raw, tokens, seps, parts,
          mol, rendered, field, again, calc, rdata, rform, session,
          substances, view, legacy, dash, reqs>>

\* the state of the components added after the views
newer == <<legacy, dash, reqs>>

\* the state that the dilution and parse_list operations leave alone
later == <<mol, rendered, field, again, calc, rdata, rform, session,
           substances, view, newer>>

--------------------------------------------------------------------------
(* Bounds of the model *)

\* largest magnitude typed into a dilution field
MaxVal == 2
\* largest explicit molecular weight handed to calculate
MaxMW == 2
\* most species tokens in one input text
MaxTokens == 2
\* longest run of word characters in a species token
MaxWordLen == 2
\* most atoms of one element in a decoded SMILES graph
MaxCount == 2
\* largest total formal charge, either sign, of a decoded SMILES graph
MaxCharge == 2
\* largest coefficient in a balanced reaction
MaxCoef == 3
\* most requests sent to the dashboard in one session
MaxRequests == 3

--------------------------------------------------------------------------
(* Units: the selectable choices of SolutionForm and what pint makes of them *)

Slots == {"c1", "v1", "c2", "v2"}
SlotOrder == <<"c1", "v1", "c2", "v2">>

\* "u" stands for the micro sign of the choices; pint reads both as micro-
CONCENTRATION_CHOICES == {"mol/L", "mmol/L", "umol/L", "nmol/L", "pmol/L"}
VOLUME_CHOICES == {"L", "mL", "uL", "nL", "pL"}

UnitChoices(k) == IF k \in {"c1", "c2"} THEN CONCENTRATION_CHOICES ELSE VOLUME_CHOICES
BaseUnit(k) == IF k \in {"c1", "c2"} THEN "mol/L" ELSE "L"

\* power of ten of the SI prefix of a selectable unit
UnitPower(u) ==
    CASE u \in {"mol/L", "L"}   -> 0
      [] u \in {"mmol/L", "mL"} -> -3
      [] u \in {"umol/L", "uL"} -> -6
      [] u \in {"nmol/L", "nL"} -> -9
      [] u \in {"pmol/L", "pL"} -> -12

\* dimension of a selectable unit: exponents of mole and of liter
UnitMol(u) == IF u \in CONCENTRATION_CHOICES THEN 1 ELSE 0
UnitLiter(u) == IF u \in CONCENTRATION_CHOICES THEN -1 ELSE 1

--------------------------------------------------------------------------
(* Exact arithmetic helpers *)

Abs(x) == IF x < 0 THEN -x ELSE x
Sign(x) == IF x < 0 THEN -1 ELSE IF x = 0 THEN 0 ELSE 1

RECURSIVE Pow10(_)
Pow10(n) == IF n <= 0 THEN 1 ELSE 10 * Pow10(n - 1)

\* largest exponent difference the integer comparisons below multiply out;
\* mantissas stay below 10^4, so a larger difference decides the comparison
ExpSpan == 4

\* a * 10^ea = b * 10^eb, for integers a, b
EqScaled(a, ea, b, eb) ==
    IF a = 0 \/ b = 0 THEN a = b
    ELSE IF ea >= eb
         THEN ea - eb <= ExpSpan /\ a * Pow10(ea - eb) = b
         ELSE eb - ea <= ExpSpan /\ a = b * Pow10(eb - ea)

\* a * 10^ea < b * 10^eb, for integers a, b
LtScaled(a, ea, b, eb) ==
    IF Sign(a) # Sign(b) THEN Sign(a) < Sign(b)
    ELSE IF a = 0 THEN FALSE
    ELSE IF ea >= eb
         THEN IF ea - eb > ExpSpan THEN a < 0 ELSE a * Pow10(ea - eb) < b
         ELSE IF eb - ea > ExpSpan THEN a > 0 ELSE a < b * Pow10(eb - ea)

\* floor(log10(n / d)) for integers n, d > 0
FloorLog10(n, d) ==
    CHOOSE k \in (0 - ExpSpan)..ExpSpan :
        /\ IF k >= 0 THEN d * Pow10(k) <= n ELSE d <= n * Pow10(0 - k)
        /\ IF k + 1 >= 0 THEN n < d * Pow10(k + 1) ELSE n * Pow10(0 - (k + 1)) < d

--------------------------------------------------------------------------
(* pint quantities *)

\* Q_(v, u): magnitude v in unit u
Q_(v, u) ==
    [num |-> v, den |-> 1, mexp |-> 0,
     upow |-> UnitPower(u), mol |-> UnitMol(u), liter |-> UnitLiter(u)]

NoQuantity == [num |-> 0, den |-> 1, mexp |-> 0, upow |-> 0, mol |-> 0, liter |-> 0]

\* a * b on quantities: magnitudes multiply, units multiply
QMul(a, b) ==
    [num |-> a.num * b.num, den |-> a.den * b.den, mexp |-> a.mexp + b.mexp,
     upow |-> a.upow + b.upow, mol |-> a.mol + b.mol, liter |-> a.liter + b.liter]

\* a / b on quantities, b.num # 0 (a zero divisor raises ZeroDivisionError)
QDiv(a, b) ==
    [num |-> a.num * b.den * Sign(b.num), den |-> a.den * Abs(b.num),
     mexp |-> a.mexp - b.mexp,
     upow |-> a.upow - b.upow, mol |-> a.mol - b.mol, liter |-> a.liter - b.liter]

\* q.to(unit) for a unit with prefix power p and the dimension of q:
\* the magnitude absorbs the change of scale
QTo(q, p) == [q EXCEPT !.mexp = q.mexp + q.upow - p, !.upow = p]

\* powers of ten that have an SI prefix a compact unit can carry
SIPowers == {3 * i : i \in -8..8}

\* to_compact with the fault of relabelling the quantity in the base unit
\* without rescaling its magnitude
to_compact_relabel(q) == [q EXCEPT !.upow = 0]

\* q.to_compact(): rescale to the SI prefix that leaves 1 <= |magnitude| < 1000,
\* limited to the prefixes that exist; zero and unitless quantities are
\* returned as they are
to_compact(q) ==
    IF q.num = 0 \/ (q.mol = 0 /\ q.liter = 0) THEN q
    ELSE LET k == FloorLog10(Abs(q.num), q.den) + q.mexp + q.upow
             p3 == 3 * (k \div 3)
             lo == CHOOSE x \in SIPowers : \A y \in SIPowers : x <= y
             hi == CHOOSE x \in SIPowers : \A y \in SIPowers : y <= x
             power == IF p3 < lo THEN lo ELSE IF p3 > hi THEN hi ELSE p3
         IN QTo(q, power)

--------------------------------------------------------------------------
(* chempy: Substance.from_formula(f).mass, for the formulas of the model *)

NoFormula == ""
SoluteFormulas == {NoFormula, "NaCl", "XYZ"}

\* formulas Substance.from_formula accepts ("XYZ" raises, as in the tests)
Resolvable(f) == f \in {"NaCl"}

\* molar mass in g/mol, rounded to an integer
SubstanceMass(f) == CASE f = "NaCl" -> 58 [] OTHER -> 0

--------------------------------------------------------------------------
(* DilutionCalculator.calculate *)

Absent(k) == [given |-> FALSE, val |-> 0, unit |-> BaseUnit(k)]

\* missing_key = [k for k in values if values[k][0] is None], in dict order
MissingKeys(p) == SelectSeq(SlotOrder, LAMBDA k : ~p[k].given)

NoArgs == [mw_given |-> FALSE, mw |-> 0, formula |-> NoFormula]

\* provided[k] = Q_(v, u)
Provided(p, k) == Q_(p[k].val, p[k].unit)

NoMass == [num |-> 0, mexp |-> 0]
NoResult ==
    [status |-> "none", missing_property |-> "", missing_value |-> NoQuantity,
     has_mass |-> FALSE, mass_g |-> NoMass]

\* numerator pair and divisor of the C1V1 = C2V2 branch taken for `miss`
Numerator(miss) == IF miss \in {"c1", "v1"} THEN <<"c2", "v2">> ELSE <<"c1", "v1">>
Divisor(miss) ==
    CASE miss = "c1" -> "v1" [] miss = "v1" -> "c1"
      [] miss = "c2" -> "v2" [] miss = "v2" -> "c2"

\* the missing quantity: (a * b) / d
Solve(p, miss) ==
    QDiv(QMul(Provided(p, Numerator(miss)[1]), Provided(p, Numerator(miss)[2])),
         Provided(p, Divisor(miss)))

\* mw = molecular_weight; if not mw and solute_formula: mw = mass or None.
\* The result is [ok, value]; a molecular weight of 0 is falsy like None.
ResolveMW(a) ==
    IF a.mw_given /\ a.mw # 0 THEN [ok |-> TRUE, value |-> a.mw]
    ELSE IF a.formula # NoFormula /\ Resolvable(a.formula)
         THEN [ok |-> SubstanceMass(a.formula) # 0, value |-> SubstanceMass(a.formula)]
         ELSE [ok |-> FALSE, value |-> 0]

\* MassOf with the fault of multiplying the magnitudes as entered, without
\* converting c2 to mol/L and v2 to L
MassOfRaw(p, mw) == [num |-> p["c2"].val * p["v2"].val * mw, mexp |-> 0]

\* moles = c2.to("mol/l").magnitude * v2.to("l").magnitude; mass = moles * mw
MassOf(p, mw) ==
    LET c2_mol_L == QTo(Provided(p, "c2"), 0)
        v2_L == QTo(Provided(p, "v2"), 0)
    IN [num |-> c2_mol_L.num * v2_L.num * mw, mexp |-> c2_mol_L.mexp + v2_L.mexp]

\* calculate with the fault of computing the mass whenever a molecular weight
\* is known, without testing that c2 and v2 were provided
calculate_mass_unguarded(p, a) ==
    LET missing_key == MissingKeys(p) IN
    IF Len(missing_key) # 1
    THEN [NoResult EXCEPT !.status = "ValueError"]
    ELSE LET miss == missing_key[1] IN
         IF p[Divisor(miss)].val = 0
         THEN [NoResult EXCEPT !.status = "ZeroDivisionError"]
         ELSE LET mw == ResolveMW(a)
              IN [status |-> "ok",
                  missing_property |-> miss,
                  missing_value |-> to_compact(Solve(p, miss)),
                  has_mass |-> mw.ok,
                  mass_g |-> IF mw.ok THEN MassOf(p, mw.value) ELSE NoMass]

calculate(p, a) ==
    LET missing_key == MissingKeys(p) IN
    IF Len(missing_key) # 1
    THEN [NoResult EXCEPT !.status = "ValueError"]
    ELSE LET miss == missing_key[1] IN
         IF p[Divisor(miss)].val = 0
         THEN [NoResult EXCEPT !.status = "ZeroDivisionError"]
         ELSE LET mw == ResolveMW(a)
                  withMass == mw.ok /\ p["c2"].given /\ p["v2"].given
              IN [status |-> "ok",
                  missing_property |-> miss,
                  missing_value |-> to_compact(Solve(p, miss)),
                  has_mass |-> withMass,
                  mass_g |-> IF withMass THEN MassOf(p, mw.value) ELSE NoMass]

--------------------------------------------------------------------------
(* SolutionForm: field cleaning followed by clean() *)

\* FloatField(min_value=0, required=False): a value below 0 fails the field
FieldFails(p, k) == p[k].given /\ p[k].val < 0

\* cleaned_data.get(k): None for an empty field and for a field that failed
Cleaned(p) == [k \in Slots |-> IF FieldFails(p, k) THEN Absent(k) ELSE p[k]]

\* MagnitudeLess with the fault of comparing the numbers as entered
RawLess(q, r) == q.num < r.num

\* q.to("liter").magnitude < r.to("liter").magnitude (likewise mol/liter)
MagnitudeLess(q, r) ==
    LtScaled(QTo(q, 0).num, QTo(q, 0).mexp, QTo(r, 0).num, QTo(r, 0).mexp)

\* clean with the fault of accepting four provided values (count < 3 tested)
clean_at_least_three(cd) ==
    IF Cardinality({k \in Slots : cd[k].given}) < 3 THEN "count"
    ELSE IF \E k \in Slots : cd[k].given /\ cd[k].val <= 0 THEN "nonpositive"
    ELSE IF /\ cd["v1"].given /\ cd["v2"].given
            /\ ~MagnitudeLess(Provided(cd, "v1"), Provided(cd, "v2"))
         THEN "volume"
    ELSE IF /\ cd["c1"].given /\ cd["c2"].given
            /\ MagnitudeLess(Provided(cd, "c1"), Provided(cd, "c2"))
         THEN "concentration"
    ELSE ""

\* clean with the fault of rejecting negative values only (value < 0 tested)
clean_negative_only(cd) ==
    IF Cardinality({k \in Slots : cd[k].given}) # 3 THEN "count"
    ELSE IF \E k \in Slots : cd[k].given /\ cd[k].val < 0 THEN "nonpositive"
    ELSE IF /\ cd["v1"].given /\ cd["v2"].given
            /\ ~MagnitudeLess(Provided(cd, "v1"), Provided(cd, "v2"))
         THEN "volume"
    ELSE IF /\ cd["c1"].given /\ cd["c2"].given
            /\ MagnitudeLess(Provided(cd, "c1"), Provided(cd, "c2"))
         THEN "concentration"
    ELSE ""

\* clean without its second ordering check
clean_volume_only(cd) ==
    IF Cardinality({k \in Slots : cd[k].given}) # 3 THEN "count"
    ELSE IF \E k \in Slots : cd[k].given /\ cd[k].val <= 0 THEN "nonpositive"
    ELSE IF /\ cd["v1"].given /\ cd["v2"].given
            /\ ~MagnitudeLess(Provided(cd, "v1"), Provided(cd, "v2"))
         THEN "volume"
    ELSE ""

\* SolutionForm.clean on the cleaned data: the message of the first
\* ValidationError raised, "" when it returns
clean(cd) ==
    IF Cardinality({k \in Slots : cd[k].given}) # 3 THEN "count"
    ELSE IF \E k \in Slots : cd[k].given /\ cd[k].val <= 0 THEN "nonpositive"
    ELSE IF /\ cd["v1"].given /\ cd["v2"].given
            /\ ~MagnitudeLess(Provided(cd, "v1"), Provided(cd, "v2"))
         THEN "volume"
    ELSE IF /\ cd["c1"].given /\ cd["c2"].given
            /\ MagnitudeLess(Provided(cd, "c1"), Provided(cd, "c2"))
         THEN "concentration"
    ELSE ""

NoForm == [field_errors |-> {}, error |-> "", bound |-> FALSE]

full_clean(p) ==
    [field_errors |-> {k \in Slots : FieldFails(p, k)},
     error |-> clean(Cleaned(p)),
     bound |-> TRUE]

\* form.is_valid()
is_valid(f) == f.bound /\ f.field_errors = {} /\ f.error = ""

--------------------------------------------------------------------------
(* FormulaListField.parse_list; a text is a sequence of characters *)

\* characters of the class [\s,;] of default_separators
SepChars == {" ", ",", ";"}
\* whitespace, what str.strip() removes
SpaceChars == {" "}
\* the letters and digits of the model's texts
UpperChars == {"A", "B", "C", "F", "H", "N", "O", "S"}
LowerChars == {"a", "e", "l", "m", "o", "r", "t", "u"}
DigitChars == {"0", "1", "2", "3", "4", "5", "6", "7", "8", "9"}
\* characters of the class \w among those of the model
WordChars == UpperChars \cup LowerChars \cup DigitChars

\* the first position at or after i that holds a separator character,
\* Len(s) + 1 when there is none: where the next match of [\s,;]+ starts
MatchStart(s, i) ==
    IF \E j \in i..Len(s) : s[j] \in SepChars
    THEN CHOOSE j \in i..Len(s) :
             s[j] \in SepChars /\ \A k \in i..(j - 1) : s[k] \notin SepChars
    ELSE Len(s) + 1

\* the last position of the run of separator characters that starts at j:
\* the match is greedy
MatchEnd(s, j) ==
    CHOOSE e \in j..Len(s) :
        /\ \A k \in j..e : s[k] \in SepChars
        /\ (e = Len(s) \/ s[e + 1] \notin SepChars)

\* re.split(r"[\s,;]+", value): the pieces between the matches, with an
\* empty piece where the text starts or ends with a match
RECURSIVE SplitRuns(_, _)
SplitRuns(s, i) ==
    LET j == MatchStart(s, i)
    IN  IF j > Len(s) THEN << SubSeq(s, i, Len(s)) >>
        ELSE << SubSeq(s, i, j - 1) >> \o SplitRuns(s, MatchEnd(s, j) + 1)

re_split_separators(value) == SplitRuns(value, 1)

\* str.strip()
RECURSIVE LStrip(_)
LStrip(s) == IF s # <<>> /\ Head(s) \in SpaceChars THEN LStrip(Tail(s)) ELSE s
RECURSIVE RStrip(_)
RStrip(s) ==
    IF s # <<>> /\ s[Len(s)] \in SpaceChars THEN RStrip(SubSeq(s, 1, Len(s) - 1)) ELSE s
strip(s) == RStrip(LStrip(s))

\* a pattern with the fault of matching every "+"
AnyPlus(t, i) == t[i] = "+"

\* the pattern (?<=\w)\+(?=\w) matches at position i
InnerPlus(t, i) ==
    /\ t[i] = "+"
    /\ i > 1 /\ t[i - 1] \in WordChars
    /\ i < Len(t) /\ t[i + 1] \in WordChars

\* re.split(r"(?<=\w)\+(?=\w)", token)
RECURSIVE SplitPlus(_, _, _, _)
SplitPlus(t, i, cur, acc) ==
    IF i > Len(t) THEN Append(acc, cur)
    ELSE IF InnerPlus(t, i) THEN SplitPlus(t, i + 1, <<>>, Append(acc, cur))
    ELSE SplitPlus(t, i + 1, Append(cur, t[i]), acc)

re_split_plus(token) == SplitPlus(token, 1, <<>>, <<>>)

\* the inner loop: the stripped, non-empty subparts of one token
Subparts(token) ==
    SelectSeq([j \in 1..Len(re_split_plus(token)) |-> strip(re_split_plus(token)[j])],
              LAMBDA part : part # <<>>)

\* the outer loop over the tokens from position i on
RECURSIVE ParseTokens(_, _, _)
ParseTokens(toks, i, acc) ==
    IF i > Len(toks) THEN acc
    ELSE LET token == strip(toks[i]) IN
         IF token = <<>> \/ token = <<"+">>
         THEN ParseTokens(toks, i + 1, acc)
         ELSE ParseTokens(toks, i + 1, acc \o Subparts(token))

parse_list(value) == ParseTokens(re_split_separators(value), 1, <<>>)

--------------------------------------------------------------------------
(* State of the operations a behaviour does not perform *)

\* element symbols of the model, in the order of Python's sorted()
ElementOrder == <<"Br", "C", "Cl", "F", "H", "N", "O">>
Elements == { ElementOrder[i] : i \in 1..Len(ElementOrder) }

NoMol == [counts |-> [e \in Elements |-> 0], charge |-> 0]
NoField == [ok |-> FALSE, parsed |-> <<>>, value |-> <<>>, code |-> "",
            token |-> <<>>, tried |-> <<>>]
NoCalc == [op |-> "", arg |-> "", lib |-> [raises |-> FALSE, value |-> 0],
           raised |-> FALSE, none |-> TRUE, value |-> 0]
NoData == [reactant |-> <<>>, product |-> <<>>]
NoRForm == [data |-> NoData, reactant |-> NoField, product |-> NoField,
            non_field |-> "", valid |-> FALSE]
MustBeProvided == "Reactant and product must be provided."
NoView == [status |-> "", property |-> "", value |-> [num |-> 0, den |-> 1, mexp |-> 0],
           unit |-> "", has_mass |-> FALSE, solute_mass_g |-> NoMass, message |-> ""]

NoLegacy == [fn |-> "", none |-> TRUE, raised |-> FALSE, num |-> 0, den |-> 1]

\* request.POST of the dashboard with every field left out: the defaults of
\* the request.POST.get calls; the numeric fields are texts
NoFields ==
    [formula |-> "", c1 |-> <<>>, c1_unit |-> "mol/L", v1 |-> <<>>, v1_unit |-> "L",
     c2 |-> <<>>, c2_unit |-> "mol/L", v2 |-> <<>>, v2_unit |-> "L",
     molecular_weight |-> <<>>, solute |-> "", reactant |-> "", product |-> "",
     reversible |-> FALSE]

\* a value of context['molecular_weight']: the submitted text, or the
\* calculator's result (a number or None)
Text(t) == [kind |-> "text", text |-> t, value |-> 0]
Number(v) == [kind |-> "number", text |-> <<>>, value |-> v]
None == [kind |-> "None", text |-> <<>>, value |-> 0]

\* the field entries of the context built from the POST data f
ContextFields(f) == [f EXCEPT !.molecular_weight = Text(f.molecular_weight)]

\* a result key that the context does not hold
NoKey ==
    [set |-> FALSE, kind |-> "", property |-> "", value |-> 0,
     magnitude |-> [num |-> 0, den |-> 1, mexp |-> 0], text |-> ""]

\* the dict {}: no field and no result
EmptyContext ==
    [empty |-> TRUE, fields |-> ContextFields(NoFields),
     mw_result |-> NoKey, dilution_result |-> NoKey, reaction_result |-> NoKey]

NoDash ==
    [stored |-> EmptyContext, action |-> "", posted |-> NoFields,
     response |-> "", rendered |-> EmptyContext, requests |-> 0]

\* the requests that can be in flight on one session
Requests == {1, 2}
NoReqs == [r \in Requests |-> [pc |-> "idle", subs |-> <<>>, prev |-> <<>>]]

\* the components added after the views are not in use
Idle ==
    /\ legacy = NoLegacy
    /\ dash = NoDash
    /\ reqs = NoReqs

Unused ==
    /\ mol = NoMol
    /\ rendered = <<>>
    /\ field = NoField
    /\ again = NoField
    /\ calc = NoCalc
    /\ rdata = NoData
    /\ rform = NoRForm
    /\ session = <<>>
    /\ substances = <<>>
    /\ view = NoView
    /\ Idle

--------------------------------------------------------------------------
(* The texts handed to parse_list: species tokens joined by separators *)

\* a run of word characters: "H" followed by digits
RECURSIVE Digits(_)
Digits(n) == IF n <= 0 THEN <<>> ELSE <<"2">> \o Digits(n - 1)
Words == { <<"H">> \o Digits(n) : n \in 0..(MaxWordLen - 1) }

\* species tokens: a formula, a formula with a charge sign, a bracketed
\* SMILES atom with a charge
SpeciesTokens ==
    Words
    \cup { w \o <<"+">> : w \in Words }
    \cup { w \o <<"-">> : w \in Words }
    \cup { <<"[">> \o w \o <<"+", "]">> : w \in Words }

\* what the help texts and the tests put between two species
PlusBetween == <<"+">>
Separators ==
    { <<" ">>, <<",">>, <<";">>, <<",", " ">>, <<" ", "+", " ">>, PlusBetween }

RECURSIVE Join(_, _)
Join(toks, ss) ==
    IF Len(toks) <= 1 THEN (IF toks = <<>> THEN <<>> ELSE toks[1])
    ELSE toks[1] \o ss[1] \o Join(Tail(toks), Tail(ss))

TokenLists == UNION { [1..n -> SpeciesTokens] : n \in 1..MaxTokens }

InitParse ==
    /\ pc = "input"
    /\ tokens \in TokenLists
    /\ seps \in [1..(Len(tokens) - 1) -> Separators]
    /\ raw = Join(tokens, seps)
    /\ parts = <<>>
    /\ post = [k \in Slots |-> Absent(k)]
    /\ args = NoArgs
    /\ result = NoResult
    /\ form = NoForm
    /\ Unused

\* FormulaListField().parse_list(raw)
ParseList ==
    /\ pc = "input"
    /\ parts' = parse_list(raw)
    /\ pc' = "parsed"
    /\ UNCHANGED <<post, args, result, form, raw, tokens, seps, later>>

NextParse == ParseList

SpecParse == InitParse /\ [][NextParse]_vars

--------------------------------------------------------------------------
(* parse_list on tokens that carry a charge suffix, as the validator's      *)
(* pattern [+-]\d*$ reads them: a sign followed by the charge number         *)

ChargedStems == { <<"H">>, <<"F", "e">>, <<"S", "O", "4">>, <<"N", "H", "4">> }
ChargeNumbers == { <<>>, <<"2">>, <<"3">> }
ChargedTokens ==
    { stem \o <<sign>> \o number :
        stem \in ChargedStems, sign \in {"+", "-"}, number \in ChargeNumbers }

InitCharged ==
    /\ pc = "input"
    /\ tokens \in UNION { [1..n -> ChargedTokens] : n \in 1..MaxTokens }
    /\ seps = [i \in 1..(Len(tokens) - 1) |-> <<" ">>]
    /\ raw = Join(tokens, seps)
    /\ parts = <<>>
    /\ post = [k \in Slots |-> Absent(k)]
    /\ args = NoArgs
    /\ result = NoResult
    /\ form = NoForm
    /\ Unused

NextCharged == ParseList

SpecCharged == InitCharged /\ [][NextCharged]_vars

--------------------------------------------------------------------------
(* The dilution request: inputs, then one of the two operations *)

InputValues == (0 - 1)..MaxVal
PositiveValues == 1..MaxVal

Given(v, u) == [given |-> TRUE, val |-> v, unit |-> u]

MkPost(a, b, c, d) ==
    [k \in Slots |-> CASE k = "c1" -> a [] k = "v1" -> b [] k = "c2" -> c [] k = "v2" -> d]

\* a filled slot: a positive magnitude with any selectable unit prefix
Filled(k) == { Given(v, u) : v \in PositiveValues, u \in UnitChoices(k) }

\* slot k when slot m is the empty one
SlotWith(k, m) == IF k = m THEN {Absent(k)} ELSE Filled(k)

\* exactly one slot empty, three positive magnitudes, every unit prefix
SolvablePosts ==
    UNION { { MkPost(a, b, c, d) :
                a \in SlotWith("c1", m), b \in SlotWith("v1", m),
                c \in SlotWith("c2", m), d \in SlotWith("v2", m) }
            : m \in Slots }

\* a slot that is empty or holds any magnitude, zero and negative included,
\* in the base unit
Loose(k) == {Absent(k)} \cup { Given(v, BaseUnit(k)) : v \in InputValues }

\* any number of empty slots, zero and negative magnitudes, base units
AnyPosts ==
    { MkPost(a, b, c, d) :
        a \in Loose("c1"), b \in Loose("v1"), c \in Loose("c2"), d \in Loose("v2") }

MWArgs ==
    { a \in [mw_given : BOOLEAN, mw : 0..MaxMW, formula : SoluteFormulas] :
        ~a.mw_given => a.mw = 0 }

Init ==
    /\ pc = "input"
    /\ post \in SolvablePosts \cup AnyPosts
    /\ args = NoArgs
    /\ result = NoResult
    /\ form = NoForm
    /\ raw = <<>>
    /\ tokens = <<>>
    /\ seps = <<>>
    /\ parts = <<>>
    /\ Unused

\* DilutionCalculator().calculate(c1, c1_unit, ..., molecular_weight, solute_formula)
Calculate ==
    /\ pc = "input"
    /\ \E a \in MWArgs :
        /\ args' = a
        /\ result' = calculate(post, a)
    /\ pc' = "calculated"
    /\ UNCHANGED <<post, form, raw, tokens, seps, parts, later>>

\* SolutionForm(post).is_valid()
Clean ==
    /\ pc = "input"
    /\ form' = full_clean(post)
    /\ pc' = "cleaned"
    /\ UNCHANGED <<post, args, result, raw, tokens, seps, parts, later>>

Next == Calculate \/ Clean

Spec == Init /\ [][Next]_vars

--------------------------------------------------------------------------
(* smiles_to_formula: the formula text of a decoded graph *)

DigitOf(d) ==
    CASE d = 0 -> "0" [] d = 1 -> "1" [] d = 2 -> "2" [] d = 3 -> "3"
      [] d = 4 -> "4" [] d = 5 -> "5" [] d = 6 -> "6" [] d = 7 -> "7"
      [] d = 8 -> "8" [] d = 9 -> "9"

\* str(n) inside the f-strings, n >= 0
RECURSIVE Dec(_)
Dec(n) == IF n < 10 THEN <<DigitOf(n)>> ELSE Dec(n \div 10) \o <<DigitOf(n % 10)>>

\* the characters of an element symbol
Chars(el) ==
    CASE el = "Br" -> <<"B", "r">>
      [] el = "Cl" -> <<"C", "l">>
      [] OTHER -> <<el>>

\* f"{el}{num if num > 1 else ''}"
Part(el, num) == Chars(el) \o (IF num > 1 THEN Dec(num) ELSE <<>>)

\* the keys of the Counter: the elements with at least one atom
Present(counts) == { e \in Elements : counts[e] > 0 }

\* sorted(counts) over the keys S left in the Counter
sorted(S) == SelectSeq(ElementOrder, LAMBDA e : e \in S)

\* for el in sorted(counts): parts.append(...)
RECURSIVE RestParts(_, _, _)
RestParts(counts, els, i) ==
    IF i > Len(els) THEN <<>>
    ELSE Part(els[i], counts[els[i]]) \o RestParts(counts, els, i + 1)

\* the charge appended to the formula
charge_suffix(charge_total) ==
    IF charge_total > 0
    THEN (IF charge_total > 1 THEN Dec(charge_total) ELSE <<>>) \o <<"+">>
    ELSE IF charge_total < 0
    THEN (IF charge_total < 0 - 1 THEN Dec(Abs(charge_total)) ELSE <<>>) \o <<"-">>
    ELSE <<>>

\* a variant that puts hydrogen second only next to carbon
render_formula_hill(m) ==
    LET counts == m.counts
        hasC == "C" \in Present(counts)
        carbon == IF hasC THEN Part("C", counts["C"]) ELSE <<>>
        hydrogen == IF hasC /\ "H" \in Present(counts)
                    THEN Part("H", counts["H"]) ELSE <<>>
        rest == sorted(Present(counts) \ (IF hasC THEN {"C", "H"} ELSE {}))
    IN  carbon \o hydrogen \o RestParts(counts, rest, 1) \o charge_suffix(m.charge)

\* lines 13-29 of smiles_to_formula, on the counts and the total charge
render_formula(m) ==
    LET counts == m.counts
        carbon == IF "C" \in Present(counts) THEN Part("C", counts["C"]) ELSE <<>>
        hydrogen == IF "H" \in Present(counts) THEN Part("H", counts["H"]) ELSE <<>>
        rest == sorted(Present(counts) \ {"C", "H"})
    IN  carbon \o hydrogen \o RestParts(counts, rest, 1) \o charge_suffix(m.charge)

\* the total charges of the decoded graphs
Charges == (0 - MaxCharge)..MaxCharge

InitRender ==
    /\ pc = "input"
    /\ mol \in [counts : [Elements -> 0..MaxCount], charge : Charges]
    /\ rendered = <<>>
    /\ post = [k \in Slots |-> Absent(k)]
    /\ args = NoArgs
    /\ result = NoResult
    /\ form = NoForm
    /\ raw = <<>>
    /\ tokens = <<>>
    /\ seps = <<>>
    /\ parts = <<>>
    /\ field = NoField
    /\ again = NoField
    /\ calc = NoCalc
    /\ rdata = NoData
    /\ rform = NoRForm
    /\ session = <<>>
    /\ substances = <<>>
    /\ view = NoView
    /\ Idle

\* the rendering part of smiles_to_formula on the decoded graph
Render ==
    /\ pc = "input"
    /\ rendered' = render_formula(mol)
    /\ pc' = "rendered"
    /\ UNCHANGED <<post, args, result, form, raw, tokens, seps, parts, mol,
                   field, again, calc, rdata, rform, session,
                   substances, view,
                   newer>>

NextRender == Render

SpecRender == InitRender /\ [][NextRender]_vars

--------------------------------------------------------------------------
(* The two parsers FormulaListField.validate calls, on the tokens of the    *)
(* model: chempy's Substance.from_formula and pysmiles.read_smiles          *)

\* a graph of c carbon, h hydrogen, n nitrogen, o oxygen, f fluorine atoms
\* and total charge q
Graph(c, h, n, o, f, q) ==
    [counts |-> [e \in Elements |->
                    CASE e = "C" -> c [] e = "H" -> h [] e = "N" -> n
                      [] e = "O" -> o [] e = "F" -> f [] OTHER -> 0],
     charge |-> q]

\* [text, whether from_formula accepts it, whether read_smiles decodes it,
\*  the decoded graph]
Entry(t, f, d, g) == [text |-> t, formula |-> f, smiles |-> d, graph |-> g]

Library ==
    { Entry(<<"H", "2", "O">>, TRUE, FALSE, NoMol),
      Entry(<<"C", "O", "2">>, TRUE, FALSE, NoMol),
      Entry(<<"N", "H", "4", "+">>, TRUE, FALSE, NoMol),
      Entry(<<"C", "l", "-">>, TRUE, FALSE, NoMol),
      Entry(<<"O">>, TRUE, TRUE, Graph(0, 2, 0, 1, 0, 0)),
      Entry(<<"C">>, TRUE, TRUE, Graph(1, 4, 0, 0, 0, 0)),
      Entry(<<"C", "C">>, TRUE, TRUE, Graph(2, 6, 0, 0, 0, 0)),
      Entry(<<"C", "C", "O">>, TRUE, TRUE, Graph(2, 6, 0, 1, 0, 0)),
      Entry(<<"[", "C", "]">>, FALSE, TRUE, Graph(1, 0, 0, 0, 0, 0)),
      Entry(<<"[", "N", "H", "4", "+", "]">>, FALSE, TRUE, Graph(0, 4, 1, 0, 0, 1)),
      Entry(<<"N", "o", "t", "A", "F", "o", "r", "m", "u", "l", "a">>,
            FALSE, TRUE, Graph(0, 4, 1, 2, 1, 0)),
      Entry(<<")">>, FALSE, FALSE, NoMol),
      Entry(<<")", "+">>, FALSE, FALSE, NoMol),
      Entry(<<"H", "2">>, TRUE, FALSE, NoMol),
      Entry(<<"O", "2">>, TRUE, FALSE, NoMol),
      Entry(<<"O", "=", "O">>, FALSE, TRUE, Graph(0, 0, 0, 2, 0, 0)),
      Entry(<<"C", "H", "4">>, TRUE, FALSE, NoMol),
      Entry(<<"C", "2", "H", "6">>, TRUE, FALSE, NoMol),
      Entry(<<"C", "2", "H", "6", "O">>, TRUE, FALSE, NoMol),
      Entry(<<"H", "4", "N", "+">>, TRUE, FALSE, NoMol),
      Entry(<<"H", "4", "F", "N", "O", "2">>, TRUE, FALSE, NoMol) }

\* Substance.from_formula(formula) returns (TRUE) or raises (FALSE)
from_formula(formula) == \E e \in Library : e.text = formula /\ e.formula

\* pysmiles.read_smiles(smiles, explicit_hydrogen=True): the graph, or raises
read_smiles(smiles) ==
    IF \E e \in Library : e.text = smiles /\ e.smiles
    THEN [ok |-> TRUE, graph |-> (CHOOSE e \in Library : e.text = smiles).graph]
    ELSE [ok |-> FALSE, graph |-> NoMol]

\* smiles_to_formula(smiles): the formula text, or raises
smiles_to_formula(smiles) ==
    LET g == read_smiles(smiles)
    IN  [ok |-> g.ok, formula |-> IF g.ok THEN render_formula(g.graph) ELSE <<>>]

--------------------------------------------------------------------------
(* FormulaListField.validate and FormulaListField.clean *)

\* re.search(r"[+-]\d*$", formula)
charge_suffix_match(f) ==
    \E i \in 1..Len(f) :
        /\ f[i] \in {"+", "-"}
        /\ \A j \in (i + 1)..Len(f) : f[j] \in DigitChars

\* re.search(r"[A-Z][a-z]", formula)
upper_lower_match(f) ==
    \E i \in 1..(Len(f) - 1) : f[i] \in UpperChars /\ f[i + 1] \in LowerChars

\* formula.isalpha()
isalpha(f) ==
    /\ Len(f) > 0
    /\ \A i \in 1..Len(f) : f[i] \in UpperChars \cup LowerChars

\* the condition of the first try block
looks_like_formula(f) ==
    \/ charge_suffix_match(f)
    \/ upper_lower_match(f)
    \/ (isalpha(f) /\ Len(f) <= 2 /\ \E i \in 1..Len(f) : f[i] # "C")

\* a loop body that never tries the formula parser ahead of the decoder
resolve_smiles_first(formula) ==
    LET s == smiles_to_formula(formula)
    IN  IF s.ok
        THEN [ok |-> TRUE, entry |-> s.formula, tried |-> <<"smiles">>]
        ELSE [ok |-> from_formula(formula), entry |-> formula,
              tried |-> <<"smiles", "formula">>]

\* a loop body that tries the formula parser first for every token
resolve_formula_first(formula) ==
    LET s == smiles_to_formula(formula)
    IN  IF from_formula(formula)
        THEN [ok |-> TRUE, entry |-> formula, tried |-> <<"formula">>]
        ELSE [ok |-> s.ok, entry |-> IF s.ok THEN s.formula ELSE formula,
              tried |-> <<"formula", "smiles">>]

\* one pass of the loop body of validate: the parsers tried, in order, and
\* the entry appended to cleaned (ok) or the token of the raise (not ok)
resolve(formula) ==
    LET likely == looks_like_formula(formula)
        first == IF likely THEN <<"formula">> ELSE <<>>
        s == smiles_to_formula(formula)
    IN  IF likely /\ from_formula(formula)
        THEN [ok |-> TRUE, entry |-> formula, tried |-> first]
        ELSE IF s.ok
        THEN [ok |-> TRUE, entry |-> s.formula, tried |-> first \o <<"smiles">>]
        ELSE [ok |-> from_formula(formula), entry |-> formula,
              tried |-> first \o <<"smiles", "formula">>]

\* a loop that writes each resolved entry into the list as it goes
RECURSIVE validate_loop_in_place(_, _, _, _)
validate_loop_in_place(value, i, cleaned, tried) ==
    IF i > Len(value)
    THEN [ok |-> TRUE, parsed |-> value, value |-> cleaned, code |-> "",
          token |-> <<>>, tried |-> tried]
    ELSE LET r == resolve(value[i])
         IN  IF r.ok
             THEN validate_loop_in_place(value, i + 1, Append(cleaned, r.entry),
                                         Append(tried, r.tried))
             ELSE [ok |-> FALSE, parsed |-> value,
                   value |-> cleaned \o SubSeq(value, i, Len(value)),
                   code |-> "invalid_formula", token |-> value[i],
                   tried |-> Append(tried, r.tried)]

\* for formula in value: ...; value[:] = cleaned
\* the list object is written only after the loop; a raise leaves it as it was
RECURSIVE validate_loop(_, _, _, _)
validate_loop(value, i, cleaned, tried) ==
    IF i > Len(value)
    THEN [ok |-> TRUE, parsed |-> value, value |-> cleaned, code |-> "",
          token |-> <<>>, tried |-> tried]
    ELSE LET r == resolve(value[i])
         IN  IF r.ok
             THEN validate_loop(value, i + 1, Append(cleaned, r.entry),
                                Append(tried, r.tried))
             ELSE [ok |-> FALSE, parsed |-> value, value |-> value,
                   code |-> "invalid_formula", token |-> value[i],
                   tried |-> Append(tried, r.tried)]

\* validate with the loop that writes into the list as it goes
validate_partial(value, required) ==
    IF value = <<>>
    THEN [ok |-> ~required, parsed |-> value, value |-> value,
          code |-> IF required THEN "required" ELSE "",
          token |-> <<>>, tried |-> <<>>]
    ELSE validate_loop_in_place(value, 1, <<>>, <<>>)

\* validate(value): Field.validate raises "required" for an empty list of a
\* required field, then the loop
validate(value, required) ==
    IF value = <<>>
    THEN [ok |-> ~required, parsed |-> value, value |-> value,
          code |-> IF required THEN "required" ELSE "",
          token |-> <<>>, tried |-> <<>>]
    ELSE validate_loop(value, 1, <<>>, <<>>)

\* to_python(value): CharField.to_python strips the text; "" gives []
to_python(value) ==
    IF strip(value) = <<>> THEN <<>> ELSE parse_list(strip(value))

\* FormulaListField(required=required).clean(value)
field_clean(value, required) == validate(to_python(value), required)

\* " ".join(parts)
JoinSpaces(toks) == Join(toks, [i \in 1..(Len(toks) - 1) |-> <<" ">>])

\* the tokens typed into a field
InputTokens == { e.text : e \in Library }

\* max_length=100 declared for the formula, reactant and product fields
max_length == 100

\* long inputs: 'H2O' typed 25 times (99 characters) and 26 times (103)
LongTokenLists ==
    { [i \in 1..n |-> <<"H", "2", "O">>] :
        n \in { max_length \div 4, max_length \div 4 + 1 } }

InitValidate ==
    /\ pc = "input"
    /\ tokens \in UNION { [1..n -> InputTokens] : n \in 0..MaxTokens }
                    \cup LongTokenLists
    /\ seps = [i \in 1..(Len(tokens) - 1) |-> <<" ">>]
    /\ raw = Join(tokens, seps)
    /\ parts = <<>>
    /\ field = NoField
    /\ again = NoField
    /\ post = [k \in Slots |-> Absent(k)]
    /\ args = NoArgs
    /\ result = NoResult
    /\ form = NoForm
    /\ mol = NoMol
    /\ rendered = <<>>
    /\ calc = NoCalc
    /\ rdata = NoData
    /\ rform = NoRForm
    /\ session = <<>>
    /\ substances = <<>>
    /\ view = NoView
    /\ Idle

\* FormulaListField().clean(raw)
FieldClean ==
    /\ pc = "input"
    /\ field' = field_clean(raw, TRUE)
    /\ pc' = "field_cleaned"
    /\ UNCHANGED <<post, args, result, form, raw, tokens, seps, parts, mol,
                   rendered, again, calc, rdata, rform, session,
                   substances, view,
                   newer>>

\* FormulaListField().clean(" ".join(field.value)) on an accepted input
FieldCleanAgain ==
    /\ pc = "field_cleaned"
    /\ field.ok
    /\ again' = field_clean(JoinSpaces(field.value), TRUE)
    /\ pc' = "recleaned"
    /\ UNCHANGED <<post, args, result, form, raw, tokens, seps, parts, mol,
                   rendered, field, calc, rdata, rform, session,
                   substances, view,
                   newer>>

NextValidate == FieldClean \/ FieldCleanAgain

SpecValidate == InitValidate /\ [][NextValidate]_vars

--------------------------------------------------------------------------
(* MolecularWeightCalculator.calculate and ReactionBalancer.calculate.      *)
(* What chempy does inside the try block is an input: it raises, or it      *)
(* returns a value                                                          *)

LibRaises == [raises |-> TRUE, value |-> 0]
LibRaisesPair == [raises |-> TRUE, value |-> <<>>]
LibReturns(v) == [raises |-> FALSE, value |-> v]

\* calculate without the try block: the library's exception propagates
mw_calculate_unguarded(call) ==
    [op |-> call.op, arg |-> call.arg, lib |-> call.lib,
     raised |-> call.lib.raises, none |-> FALSE, value |-> call.lib.value]

\* MolecularWeightCalculator().calculate(substance_or_formula):
\* substance.mass, or None when anything in the try block raised
mw_calculate(call) ==
    IF call.lib.raises
    THEN [op |-> call.op, arg |-> call.arg, lib |-> call.lib,
          raised |-> FALSE, none |-> TRUE, value |-> 0]
    ELSE [op |-> call.op, arg |-> call.arg, lib |-> call.lib,
          raised |-> FALSE, none |-> FALSE, value |-> call.lib.value]

\* ReactionBalancer().calculate(reactants, products): the two dicts of
\* balance_stoichiometry as a tuple, or None when it raised
balancer_calculate(call) ==
    IF call.lib.raises
    THEN [op |-> call.op, arg |-> call.arg, lib |-> call.lib,
          raised |-> FALSE, none |-> TRUE, value |-> <<>>]
    ELSE LET reactants_balanced == call.lib.value[1]
             products_balanced == call.lib.value[2]
         IN  [op |-> call.op, arg |-> call.arg, lib |-> call.lib,
              raised |-> FALSE, none |-> FALSE,
              value |-> <<reactants_balanced, products_balanced>>]

\* the arguments of MolecularWeightCalculator.calculate: a formula text or a
\* Substance instance
MWInputs ==
    { [substance |-> FALSE, formula |-> f] : f \in {"H2O", "NaCl", "XYZ", ""} }
    \cup { [substance |-> TRUE, formula |-> "H2O"] }

\* from_formula raises only on a text; the mass is a number of g/mol
MWOutcomes(a) ==
    (IF a.substance THEN {} ELSE {LibRaises})
    \cup { LibReturns(m) : m \in 1..MaxMW }

MWCalls ==
    UNION { { [op |-> "molecular_weight", arg |-> a, lib |-> l,
               raised |-> FALSE, none |-> TRUE, value |-> 0] : l \in MWOutcomes(a) }
            : a \in MWInputs }

\* the arguments of ReactionBalancer.calculate
Reactions ==
    { [reactants |-> <<"H2", "O2">>, products |-> <<"H2O">>],
      [reactants |-> <<"notAFormula">>, products |-> <<"H2O">>],
      [reactants |-> <<"NH4+", "OH-">>, products |-> <<"NH3", "H2O">>] }

Species(list) == { list[i] : i \in 1..Len(list) }

\* the dicts balance_stoichiometry can return: a coefficient per species
Balanced(r) ==
    { <<a, b>> : a \in [Species(r.reactants) -> 1..MaxCoef],
                 b \in [Species(r.products) -> 1..MaxCoef] }

BalancerCalls ==
    UNION { { [op |-> "reaction_balancer", arg |-> r, lib |-> l,
               raised |-> FALSE, none |-> TRUE, value |-> <<>>] :
                l \in {LibRaisesPair} \cup { LibReturns(v) : v \in Balanced(r) } }
            : r \in Reactions }

InitCalc ==
    /\ pc = "input"
    /\ (calc \in MWCalls \/ calc \in BalancerCalls)
    /\ post = [k \in Slots |-> Absent(k)]
    /\ args = NoArgs
    /\ result = NoResult
    /\ form = NoForm
    /\ raw = <<>>
    /\ tokens = <<>>
    /\ seps = <<>>
    /\ parts = <<>>
    /\ mol = NoMol
    /\ rendered = <<>>
    /\ field = NoField
    /\ again = NoField
    /\ rdata = NoData
    /\ rform = NoRForm
    /\ session = <<>>
    /\ substances = <<>>
    /\ view = NoView
    /\ Idle

MWCalculate ==
    /\ pc = "input"
    /\ calc.op = "molecular_weight"
    /\ calc' = mw_calculate(calc)
    /\ pc' = "returned"
    /\ UNCHANGED <<post, args, result, form, raw, tokens, seps, parts, mol,
                   rendered, field, again, rdata, rform, session,
                   substances, view,
                   newer>>

Balance ==
    /\ pc = "input"
    /\ calc.op = "reaction_balancer"
    /\ calc' = balancer_calculate(calc)
    /\ pc' = "returned"
    /\ UNCHANGED <<post, args, result, form, raw, tokens, seps, parts, mol,
                   rendered, field, again, rdata, rform, session,
                   substances, view,
                   newer>>

NextCalc == MWCalculate \/ Balance

SpecCalc == InitCalc /\ [][NextCalc]_vars

--------------------------------------------------------------------------
(* ChemicalReactionForm: __init__ and full_clean *)

\* "=" in text
HasEquals(text) == \E i \in 1..Len(text) : text[i] = "="

\* text.rsplit("=", 1): the parts around the last "="
split_equals_last(left, rest) ==
    LET i == CHOOSE k \in 1..Len(rest) :
                 rest[k] = "=" /\ \A j \in (k + 1)..Len(rest) : rest[j] # "="
    IN  <<left \o SubSeq(rest, 1, i - 1), SubSeq(rest, i + 1, Len(rest))>>

\* text.split("=", 1) of a text that holds "=": left is what the scan passed
RECURSIVE split_equals(_, _)
split_equals(left, rest) ==
    IF Head(rest) = "=" THEN <<left, Tail(rest)>>
    ELSE split_equals(Append(left, Head(rest)), Tail(rest))

\* __init__: the data the form keeps
reaction_init(data) ==
    IF HasEquals(data.reactant) /\ data.product = <<>>
    THEN [reactant |-> split_equals(<<>>, data.reactant)[1],
          product |-> split_equals(<<>>, data.reactant)[2]]
    ELSE IF HasEquals(data.product) /\ data.reactant = <<>>
    THEN [reactant |-> split_equals(<<>>, data.product)[1],
          product |-> split_equals(<<>>, data.product)[2]]
    ELSE data

\* cleaned_data.get(name) is falsy: the field failed or gave an empty list
Falsy(f) == ~f.ok \/ f.value = <<>>

\* clean() that raises only when both are missing
reaction_clean_neither(r, p) ==
    IF Falsy(r) /\ Falsy(p) THEN MustBeProvided ELSE ""

\* clean(): the non-field error, "" when it does not raise
reaction_clean(r, p) ==
    IF Falsy(r) \/ Falsy(p) THEN MustBeProvided ELSE ""

\* ChemicalReactionForm(data) followed by full_clean()
reaction_form(submitted) ==
    LET data == reaction_init(submitted)
        r == field_clean(data.reactant, TRUE)
        p == field_clean(data.product, TRUE)
        e == reaction_clean(r, p)
    IN  [data |-> data, reactant |-> r, product |-> p, non_field |-> e,
         valid |-> r.ok /\ p.ok /\ e = ""]

\* what is typed into one field: species separated by spaces
SideTokens == { <<"H", "2">>, <<"H", "2", "O">>, <<"O", "=", "O">>, <<")">> }
Sides ==
    { JoinSpaces(l) : l \in UNION { [1..n -> SideTokens] : n \in 0..MaxTokens } }
    \cup { <<" ">> }

\* a whole reaction typed into one field
LeftSides == { <<>>, <<"H", "2">>, <<"H", "2", "O">>, <<"H", "2", " ", "O", "2">> }
RightSides == LeftSides \cup { <<"O", "=", "O">> }
Equations ==
    { l \o e \o r : l \in LeftSides, e \in { <<"=">>, <<" ", "=", " ">> },
                    r \in RightSides }

ReactionTexts == Sides \cup Equations

InitReaction ==
    /\ pc = "input"
    /\ rdata \in [reactant : ReactionTexts, product : ReactionTexts]
    /\ rform = NoRForm
    /\ post = [k \in Slots |-> Absent(k)]
    /\ args = NoArgs
    /\ result = NoResult
    /\ form = NoForm
    /\ raw = <<>>
    /\ tokens = <<>>
    /\ seps = <<>>
    /\ parts = <<>>
    /\ mol = NoMol
    /\ rendered = <<>>
    /\ field = NoField
    /\ again = NoField
    /\ calc = NoCalc
    /\ session = <<>>
    /\ substances = <<>>
    /\ view = NoView
    /\ Idle

\* ChemicalReactionForm(rdata).is_valid()
ReactionForm ==
    /\ pc = "input"
    /\ rform' = reaction_form(rdata)
    /\ pc' = "reaction_cleaned"
    /\ UNCHANGED <<post, args, result, form, raw, tokens, seps, parts, mol,
                   rendered, field, again, calc, rdata, session,
                   substances, view,
                   newer>>

NextReaction == ReactionForm

SpecReaction == InitReaction /\ [][NextReaction]_vars

--------------------------------------------------------------------------
(* add_previous_substances: the list kept in the session *)

\* substance in prev
Contains(prev, substance) == \E i \in 1..Len(prev) : prev[i] = substance

\* a loop that tests membership in the list as it was stored
RECURSIVE append_new_stored(_, _, _)
append_new_stored(prev, subs, i) ==
    IF i > Len(subs) THEN <<>>
    ELSE (IF subs[i] # "" /\ ~Contains(prev, subs[i]) THEN <<subs[i]>> ELSE <<>>)
         \o append_new_stored(prev, subs, i + 1)

add_previous_substances_stored(prev, subs) == prev \o append_new_stored(prev, subs, 1)

\* for substance in substances: if substance and substance not in prev:
\*     prev.append(substance)
RECURSIVE append_new(_, _, _)
append_new(prev, subs, i) ==
    IF i > Len(subs) THEN prev
    ELSE append_new(IF subs[i] # "" /\ ~Contains(prev, subs[i])
                    THEN Append(prev, subs[i]) ELSE prev,
                    subs, i + 1)

\* add_previous_substances(request, substances): the list written back
add_previous_substances(prev, subs) == append_new(prev, subs, 1)

\* the formulas the views hand over; "" is an empty solute field
SubstanceNames == {"H2O", "NaCl", "CO2", "NH3"}
SubstanceLists ==
    UNION { [1..n -> SubstanceNames \cup {""}] : n \in 0..MaxTokens }

InitSession ==
    /\ pc = "input"
    /\ session = <<>>
    /\ substances = <<>>
    /\ post = [k \in Slots |-> Absent(k)]
    /\ args = NoArgs
    /\ result = NoResult
    /\ form = NoForm
    /\ raw = <<>>
    /\ tokens = <<>>
    /\ seps = <<>>
    /\ parts = <<>>
    /\ mol = NoMol
    /\ rendered = <<>>
    /\ field = NoField
    /\ again = NoField
    /\ calc = NoCalc
    /\ rdata = NoData
    /\ rform = NoRForm
    /\ view = NoView
    /\ Idle

\* one request calling add_previous_substances(request, subs)
AddPreviousSubstances ==
    /\ pc \in {"input", "added"}
    /\ \E subs \in SubstanceLists :
        /\ substances' = subs
        /\ session' = add_previous_substances(session, subs)
    /\ pc' = "added"
    /\ UNCHANGED <<post, args, result, form, raw, tokens, seps, parts, mol,
                   rendered, field, again, calc, rdata, rform, view,
                   newer>>

NextSession == AddPreviousSubstances

SpecSession == InitSession /\ [][NextSession]_vars

--------------------------------------------------------------------------
(* CalculateDilutionView.process_calculation *)

\* labels[["c1", "v1", "c2", "v2"].index(k)]
Label(k) ==
    CASE k = "c1" -> "Initial Concentration" [] k = "v1" -> "Initial Volume"
      [] k = "c2" -> "Final Concentration" [] k = "v2" -> "Final Volume"

\* an empty field with its unit selector set to u; "" is a selector left empty
AbsentWith(k, u) == [given |-> FALSE, val |-> 0, unit |-> u]

\* k in quantity_map: a value was given and its unit selector is not empty
InMap(cd, k) == cd[k].given /\ cd[k].unit # ""

\* quantity_map.get(k) for each slot: None for a slot that is not in the map
quantity_map(cd) ==
    [k \in Slots |-> IF InMap(cd, k) THEN cd[k] ELSE AbsentWith(k, cd[k].unit)]

\* the ValidationError raised by the view's own checks, "" when none is
view_checks(cd) ==
    IF Cardinality({k \in Slots : cd[k].given}) # 3 THEN "count"
    ELSE IF \E k \in Slots : cd[k].given /\ cd[k].val <= 0 THEN "nonpositive"
    ELSE IF /\ InMap(cd, "v1") /\ InMap(cd, "v2")
            /\ ~MagnitudeLess(Provided(cd, "v1"), Provided(cd, "v2"))
         THEN "volume"
    ELSE IF /\ InMap(cd, "c1") /\ InMap(cd, "c2")
            /\ MagnitudeLess(Provided(cd, "c1"), Provided(cd, "c2"))
         THEN "concentration"
    ELSE ""

\* the exception classes raised inside the try block; all derive from Exception
ViewExceptions == {"ValidationError", "ValueError", "ZeroDivisionError", "KeyError"}

\* the try block leaving with exception exc
ViewRaise(exc, msg) == [NoView EXCEPT !.status = exc, !.message = msg]

\* the body of the try block: the result dict (status "ok"), or the class of
\* the exception that leaves the block
view_try(cd, a) ==
    IF view_checks(cd) # "" THEN ViewRaise("ValidationError", view_checks(cd))
    ELSE LET r == calculate(quantity_map(cd), a) IN
         IF r.status # "ok" THEN ViewRaise(r.status, r.status)
         ELSE IF \E k \in Slots : cd[k].unit = ""
         THEN ViewRaise("KeyError", "")
         ELSE LET missing_prop == MissingKeys(quantity_map(cd))[1]
                  missing_value == to_compact(r.missing_value)
              IN  [status |-> "ok",
                   property |-> Label(missing_prop),
                   value |-> [num |-> missing_value.num, den |-> missing_value.den,
                              mexp |-> missing_value.mexp],
                   unit |-> cd[missing_prop].unit,
                   has_mass |-> r.has_mass,
                   solute_mass_g |-> r.mass_g,
                   message |-> ""]

\* handlers that catch ValidationError only
view_except_validation_only(t) ==
    IF t.status = "ok" THEN t
    ELSE IF t.status = "ValidationError"
    THEN [NoView EXCEPT !.status = "validation_error", !.message = t.message]
    ELSE [NoView EXCEPT !.status = "propagated", !.message = t.message]

\* except ValidationError / except Exception: a message and None
view_except(t) ==
    IF t.status = "ok" THEN t
    ELSE IF t.status = "ValidationError"
    THEN [NoView EXCEPT !.status = "validation_error", !.message = t.message]
    ELSE IF t.status \in ViewExceptions
    THEN [NoView EXCEPT !.status = "error", !.message = t.status]
    ELSE [NoView EXCEPT !.status = "propagated", !.message = t.message]

\* process_calculation(form): the result dict (status "ok"), or None with a
\* message after a ValidationError or any other exception
process_calculation(cd, a) == view_except(view_try(cd, a))

\* if solute_formula: add_previous_substances(request, [solute_formula]),
\* reached only when the try block got as far as the result dict
view_session(prev, t, a) ==
    IF t.status = "ok" /\ a.formula # NoFormula
    THEN add_previous_substances(prev, <<a.formula>>) ELSE prev

\* slot k when slot m is the empty one: the empty slot has a selector too
ViewSlot(k, m) ==
    IF k = m THEN { AbsentWith(k, u) : u \in UnitChoices(k) } ELSE Filled(k)

\* cleaned data of a form with slot m empty, every unit selector set
ViewPosts(m) ==
    { MkPost(a, b, c, d) :
        a \in ViewSlot("c1", m), b \in ViewSlot("v1", m),
        c \in ViewSlot("c2", m), d \in ViewSlot("v2", m) }

\* slot k with a positive value in the base unit, empty when k = m, and its
\* unit selector left empty when k = e
BlankSlot(k, m, e) ==
    { [given |-> k # m, val |-> IF k = m THEN 0 ELSE v,
       unit |-> IF k = e THEN "" ELSE BaseUnit(k)] : v \in PositiveValues }

\* cleaned data with slot m empty and the unit selector of slot e left empty
BlankUnitPosts(m, e) ==
    { MkPost(a, b, c, d) :
        a \in BlankSlot("c1", m, e), b \in BlankSlot("v1", m, e),
        c \in BlankSlot("c2", m, e), d \in BlankSlot("v2", m, e) }

\* molecular_weight left empty, any solute
ViewArgs == { a \in MWArgs : ~a.mw_given }

\* the list stored by earlier requests of the session
StoredLists == { <<>>, <<"NaCl">> }

InitView ==
    /\ pc = "input"
    /\ \/ \E m \in Slots : post \in ViewPosts(m)
       \/ \E m, e \in Slots : post \in BlankUnitPosts(m, e)
       \/ post \in AnyPosts
    /\ args \in ViewArgs
    /\ view = NoView
    /\ session \in StoredLists
    /\ substances = <<>>
    /\ result = NoResult
    /\ form = NoForm
    /\ raw = <<>>
    /\ tokens = <<>>
    /\ seps = <<>>
    /\ parts = <<>>
    /\ mol = NoMol
    /\ rendered = <<>>
    /\ field = NoField
    /\ again = NoField
    /\ calc = NoCalc
    /\ rdata = NoData
    /\ rform = NoRForm
    /\ Idle

\* CalculateDilutionView.process_calculation on the cleaned data; a solute
\* is added to the session's list when a result dict is returned
ProcessCalculation ==
    /\ pc = "input"
    /\ view' = process_calculation(post, args)
    /\ session' = view_session(session, view_try(post, args), args)
    /\ substances' = IF view'.status = "ok" /\ args.formula # NoFormula
                     THEN <<args.formula>> ELSE substances
    /\ pc' = "processed"
    /\ UNCHANGED <<post, args, result, form, raw, tokens, seps, parts, mol,
                   rendered, field, again, calc, rdata, rform,
                   newer>>

NextView == ProcessCalculation

SpecView == InitView /\ [][NextView]_vars

--------------------------------------------------------------------------
(* The older CalculateDilutionView of chemic_ally: its checks are one       *)
(* if / elif / else chain on the numbers as entered                         *)

\* the ValidationError raised by the checks of the older view, "" when none
legacy_view_checks(cd) ==
    IF Cardinality({k \in Slots : cd[k].given}) # 3 THEN "count"
    ELSE IF \E k \in Slots : cd[k].given /\ cd[k].val <= 0 THEN "nonpositive"
    ELSE IF cd["v1"].given /\ cd["v2"].given
         THEN (IF cd["v1"].val >= cd["v2"].val THEN "volume" ELSE "")
    ELSE IF cd["c1"].given /\ cd["c2"].given
         THEN (IF cd["c1"].val < cd["c2"].val THEN "concentration" ELSE "")
    ELSE "required"

--------------------------------------------------------------------------
(* Two requests of one session in add_previous_substances: each request     *)
(* works on the list it read and writes it back                             *)

\* the substances a request adds
ConcurrentNames == {"H2O", "CO2"}
ConcurrentLists ==
    UNION { [1..n -> ConcurrentNames \cup {""}] : n \in 0..MaxTokens }

InitConcurrent ==
    /\ pc = "input"
    /\ session \in StoredLists
    /\ reqs \in [Requests -> [pc : {"idle"}, subs : ConcurrentLists, prev : {<<>>}]]
    /\ substances = <<>>
    /\ post = [k \in Slots |-> Absent(k)]
    /\ args = NoArgs
    /\ result = NoResult
    /\ form = NoForm
    /\ raw = <<>>
    /\ tokens = <<>>
    /\ seps = <<>>
    /\ parts = <<>>
    /\ mol = NoMol
    /\ rendered = <<>>
    /\ field = NoField
    /\ again = NoField
    /\ calc = NoCalc
    /\ rdata = NoData
    /\ rform = NoRForm
    /\ view = NoView
    /\ legacy = NoLegacy
    /\ dash = NoDash

\* prev = request.session.get("previous_substances", [])
ReadPrevious(r) ==
    /\ reqs[r].pc = "idle"
    /\ reqs' = [reqs EXCEPT ![r].pc = "read", ![r].prev = session]
    /\ UNCHANGED session

\* the loop appending to the request's own list
AppendSubstances(r) ==
    /\ reqs[r].pc = "read"
    /\ reqs' = [reqs EXCEPT ![r].pc = "appended",
                            ![r].prev = add_previous_substances(reqs[r].prev, reqs[r].subs)]
    /\ UNCHANGED session

\* request.session["previous_substances"] = prev
WritePrevious(r) ==
    /\ reqs[r].pc = "appended"
    /\ session' = reqs[r].prev
    /\ reqs' = [reqs EXCEPT ![r].pc = "done"]

NextConcurrent ==
    \E r \in Requests :
        /\ \/ ReadPrevious(r)
           \/ AppendSubstances(r)
           \/ WritePrevious(r)
        /\ UNCHANGED <<pc, post, args, result, form, raw, tokens, seps, parts,
                       mol, rendered, field, again, calc, rdata, rform,
                       substances, view, legacy, dash>>

SpecConcurrent == InitConcurrent /\ [][NextConcurrent]_vars

--------------------------------------------------------------------------
(* The unit-less dilution functions: calculate_dilution of webapp/utils and *)
(* DilutionCalculator.calculate of chemic_ally; the values are plain        *)
(* numbers, the result is the rational num/den                              *)

\* the number returned by the branch taken for the missing argument
\*   c1 is None: v1 * c2 / v2        v1 is None: v2 * c2 / c1
\*   c2 is None: v2 * c1 / v1        v2 is None: v1 * c1 / c2
LegacyNum(p, miss) ==
    CASE miss = "c1" -> p["v1"].val * p["c2"].val
      [] miss = "v1" -> p["v2"].val * p["c2"].val
      [] miss = "c2" -> p["v2"].val * p["c1"].val
      [] miss = "v2" -> p["v1"].val * p["c1"].val
LegacyDen(p, miss) ==
    CASE miss = "c1" -> p["v2"].val
      [] miss = "v1" -> p["c1"].val
      [] miss = "c2" -> p["v1"].val
      [] miss = "v2" -> p["c2"].val

LegacyNone(fn) == [NoLegacy EXCEPT !.fn = fn]
LegacyRaised(fn) == [NoLegacy EXCEPT !.fn = fn, !.none = FALSE, !.raised = TRUE]
LegacyValue(fn, n, d) == [fn |-> fn, none |-> FALSE, raised |-> FALSE, num |-> n, den |-> d]

\* calculate_dilution(c1, v1, c2, v2): a division by zero is not caught
calculate_dilution(p) ==
    LET fn == "calculate_dilution"
        provided_values == Cardinality({k \in Slots : p[k].given})
    IN  IF provided_values = 4 THEN LegacyNone(fn)
        ELSE IF provided_values = 3
        THEN LET miss == MissingKeys(p)[1] IN
             IF LegacyDen(p, miss) = 0 THEN LegacyRaised(fn)
             ELSE LegacyValue(fn, LegacyNum(p, miss), LegacyDen(p, miss))
        ELSE LegacyNone(fn)

\* chemic_ally DilutionCalculator().calculate(c1, v1, c2, v2): None when
\* anything in the try block raises
legacy_calculate(p) ==
    LET fn == "DilutionCalculator.calculate"
        provided_values == Cardinality({k \in Slots : p[k].given})
    IN  IF provided_values # 3 THEN LegacyNone(fn)
        ELSE LET miss == MissingKeys(p)[1] IN
             IF LegacyDen(p, miss) = 0 THEN LegacyNone(fn)
             ELSE LegacyValue(fn, LegacyNum(p, miss), LegacyDen(p, miss))

\* an argument: None, or a number from zero up
LegacyArg(k) == {Absent(k)} \cup { Given(v, BaseUnit(k)) : v \in 0..MaxVal }

InitLegacy ==
    /\ pc = "input"
    /\ \E a \in LegacyArg("c1"), b \in LegacyArg("v1"),
          c \in LegacyArg("c2"), d \in LegacyArg("v2") : post = MkPost(a, b, c, d)
    /\ legacy = NoLegacy
    /\ args = NoArgs
    /\ result = NoResult
    /\ form = NoForm
    /\ raw = <<>>
    /\ tokens = <<>>
    /\ seps = <<>>
    /\ parts = <<>>
    /\ mol = NoMol
    /\ rendered = <<>>
    /\ field = NoField
    /\ again = NoField
    /\ calc = NoCalc
    /\ rdata = NoData
    /\ rform = NoRForm
    /\ session = <<>>
    /\ substances = <<>>
    /\ view = NoView
    /\ dash = NoDash
    /\ reqs = NoReqs

\* calculate_dilution(c1, v1, c2, v2)
CalculateDilution ==
    /\ pc = "input"
    /\ legacy' = calculate_dilution(post)
    /\ pc' = "legacy_returned"
    /\ UNCHANGED <<post, args, result, form, raw, tokens, seps, parts, mol,
                   rendered, field, again, calc, rdata, rform, session,
                   substances, view, dash, reqs>>

\* DilutionCalculator().calculate(c1, v1, c2, v2)
LegacyCalculate ==
    /\ pc = "input"
    /\ legacy' = legacy_calculate(post)
    /\ pc' = "legacy_returned"
    /\ UNCHANGED <<post, args, result, form, raw, tokens, seps, parts, mol,
                   rendered, field, again, calc, rdata, rform, session,
                   substances, view, dash, reqs>>

NextLegacy == CalculateDilution \/ LegacyCalculate

SpecLegacy == InitLegacy /\ [][NextLegacy]_vars

--------------------------------------------------------------------------
(* DashboardView: post builds a context from request.POST, runs the action, *)
(* and stores the context in the session; get renders the stored context    *)

\* the value of a text of digits
RECURSIVE DecVal(_)
DecVal(t) ==
    IF t = <<>> THEN 0
    ELSE 10 * DecVal(SubSeq(t, 1, Len(t) - 1))
         + (CHOOSE d \in 0..9 : DigitOf(d) = t[Len(t)])

\* float(text), for the texts of the model: digits give their value, any
\* other text raises ValueError
ParseFloat(t) ==
    IF t # <<>> /\ \A i \in 1..Len(t) : t[i] \in DigitChars
    THEN [ok |-> TRUE, value |-> DecVal(t)]
    ELSE [ok |-> FALSE, value |-> 0]

\* float(context[k]) if context[k] else None raises
BadNumber(t) == t # <<>> /\ ~ParseFloat(t).ok

DashError(message) ==
    [set |-> TRUE, kind |-> "error", property |-> "Error", value |-> 0,
     magnitude |-> [num |-> 0, den |-> 1, mexp |-> 0], text |-> message]

\* the arguments handed to DilutionCalculator.calculate
DashSlot(f, k) ==
    LET t == CASE k = "c1" -> f.c1 [] k = "v1" -> f.v1 [] k = "c2" -> f.c2 [] k = "v2" -> f.v2
        u == CASE k = "c1" -> f.c1_unit [] k = "v1" -> f.v1_unit
               [] k = "c2" -> f.c2_unit [] k = "v2" -> f.v2_unit
    IN  IF t = <<>> THEN AbsentWith(k, u) ELSE Given(ParseFloat(t).value, u)

DashArgs(f) ==
    [mw_given |-> f.molecular_weight # <<>>,
     mw |-> ParseFloat(f.molecular_weight).value,
     formula |-> f.solute]

\* the calc_dilution branch without its except clause: an exception leaves post
dash_dilution_unguarded(f) ==
    IF \/ \E t \in {f.c1, f.v1, f.c2, f.v2, f.molecular_weight} : BadNumber(t)
       \/ calculate([k \in Slots |-> DashSlot(f, k)], DashArgs(f)).status # "ok"
    THEN [NoKey EXCEPT !.kind = "raised"]
    ELSE LET res == calculate([k \in Slots |-> DashSlot(f, k)], DashArgs(f))
         IN  [set |-> TRUE, kind |-> "result", property |-> res.missing_property,
              value |-> 0,
              magnitude |-> [num |-> res.missing_value.num,
                             den |-> res.missing_value.den,
                             mexp |-> res.missing_value.mexp],
              text |-> ""]

\* the calc_dilution branch: context['dilution_result']
dash_dilution(f) ==
    IF \E t \in {f.c1, f.v1, f.c2, f.v2, f.molecular_weight} : BadNumber(t)
    THEN DashError("ValueError")
    ELSE LET res == calculate([k \in Slots |-> DashSlot(f, k)], DashArgs(f))
         IN  IF res.status # "ok" THEN DashError(res.status)
             ELSE \* make_json_safe(result): the quantity becomes its magnitude
                  [set |-> TRUE, kind |-> "result",
                   property |-> res.missing_property, value |-> 0,
                   magnitude |-> [num |-> res.missing_value.num,
                                  den |-> res.missing_value.den,
                                  mexp |-> res.missing_value.mexp],
                   text |-> ""]

\* what Substance.from_formula(formula).mass can do for a formula of the model
DashMassOutcomes(formula) ==
    CASE formula = "H2O" -> {LibReturns(18)}
      [] formula = "XYZ" -> {LibRaises}
      [] OTHER -> {LibRaises, LibReturns(0)}

\* MolecularWeightCalculator().calculate(formula) with the library doing lib
DashMW(formula, lib) ==
    LET r == mw_calculate([op |-> "molecular_weight",
                           arg |-> [substance |-> FALSE, formula |-> formula],
                           lib |-> lib, raised |-> FALSE, none |-> TRUE, value |-> 0])
    IN  IF r.none THEN None ELSE Number(r.value)

MWKey(mw) == [NoKey EXCEPT !.set = TRUE, !.kind = mw.kind, !.value = mw.value]

ReactionKey(text) == [NoKey EXCEPT !.set = TRUE, !.kind = "text", !.text = text]

\* the context after the branch of the action; lib and balanced are what the
\* libraries do
dash_context(action, f, lib, balanced) ==
    LET context == [empty |-> FALSE, fields |-> ContextFields(f),
                    mw_result |-> NoKey, dilution_result |-> NoKey,
                    reaction_result |-> NoKey]
    IN  CASE action = "calc_mw" ->
               [context EXCEPT !.mw_result =
                    MWKey(IF f.formula # "" THEN DashMW(f.formula, lib) ELSE None)]
          [] action = "use_mw" ->
               [context EXCEPT !.fields.molecular_weight = DashMW(f.formula, lib),
                               !.mw_result = MWKey(DashMW(f.formula, lib))]
          [] action = "calc_dilution" ->
               [context EXCEPT !.dilution_result = dash_dilution(f)]
          [] action = "balance_reaction" ->
               [context EXCEPT !.reaction_result =
                    ReactionKey(IF balanced THEN "latex"
                                ELSE "Could not balance reaction.")]
          [] OTHER -> context

\* a post that stores the context of a reset request like any other
dash_store_always(stored, action, context) == context

\* request.session['dashboard_context'] after post
dash_store(stored, action, context) ==
    IF action = "reset" THEN EmptyContext ELSE context

\* the response of post: a redirect, the rendered page, or a failed request
dash_response(action, context) ==
    IF action = "reset" THEN "redirect"
    ELSE IF context.dilution_result.kind = "raised" THEN "failed"
    ELSE "render"

DashActions ==
    {"calc_mw", "use_mw", "calc_dilution", "balance_reaction", "reset", ""}

\* the texts typed into a numeric field
NotANumber == <<"a", "b", "c">>

\* POST data of the dilution block: any of the four fields empty
DilutionFields ==
    { [NoFields EXCEPT !.c1 = a, !.v1 = b, !.c2 = c, !.v2 = d] :
        a, b \in {<<>>, <<"1">>, <<"2">>}, c, d \in {<<>>, <<"1">>} }
    \cup
    { [NoFields EXCEPT !.v1 = b, !.c2 = <<"1">>, !.v2 = <<"2">>, !.c2_unit = u,
                       !.molecular_weight = m, !.solute = x] :
        b \in {<<"0">>, <<"1">>, NotANumber}, u \in {"mol/L", "mmol/L"},
        m \in {<<>>, <<"2">>, NotANumber}, x \in {"", "NaCl"} }

\* POST data of the molecular weight block
WeightFields ==
    { [NoFields EXCEPT !.formula = x, !.molecular_weight = m, !.c1 = a] :
        x \in {"", "H2O", "XYZ"}, m \in {<<>>, <<"2">>}, a \in {<<>>, <<"1">>} }

\* POST data of the reaction block
ReactionFields ==
    { [NoFields EXCEPT !.reactant = r, !.product = p, !.reversible = v] :
        r \in {"", "H2 O2"}, p \in {"", "H2O"}, v \in BOOLEAN }

DashFields(action) ==
    CASE action = "calc_dilution" -> DilutionFields
      [] action = "balance_reaction" -> ReactionFields
      [] OTHER -> WeightFields

InitDash ==
    /\ pc = "input"
    /\ dash = NoDash
    /\ legacy = NoLegacy
    /\ reqs = NoReqs
    /\ post = [k \in Slots |-> Absent(k)]
    /\ args = NoArgs
    /\ result = NoResult
    /\ form = NoForm
    /\ raw = <<>>
    /\ tokens = <<>>
    /\ seps = <<>>
    /\ parts = <<>>
    /\ mol = NoMol
    /\ rendered = <<>>
    /\ field = NoField
    /\ again = NoField
    /\ calc = NoCalc
    /\ rdata = NoData
    /\ rform = NoRForm
    /\ session = <<>>
    /\ substances = <<>>
    /\ view = NoView

\* what the libraries can do in the branch of the action: the outcome of
\* Substance.from_formula(formula).mass and whether the balancer succeeds
DashOutcomes(action, f) ==
    CASE action = "use_mw" \/ (action = "calc_mw" /\ f.formula # "") ->
             { <<lib, FALSE>> : lib \in DashMassOutcomes(f.formula) }
      [] action = "balance_reaction" -> { <<LibRaises, b>> : b \in BOOLEAN }
      [] OTHER -> { <<LibRaises, FALSE>> }

\* DashboardView.post(request)
DashboardPost ==
    /\ dash.requests < MaxRequests
    /\ \E action \in DashActions :
        \E f \in DashFields(action) :
          \E o \in DashOutcomes(action, f) :
            LET context == dash_context(action, f, o[1], o[2])
            IN  dash' = [stored |-> dash_store(dash.stored, action, context),
                         action |-> action,
                         posted |-> f,
                         response |-> dash_response(action, context),
                         rendered |-> IF action = "reset" THEN EmptyContext ELSE context,
                         requests |-> dash.requests + 1]
    /\ pc' = "posted"
    /\ UNCHANGED <<post, args, result, form, raw, tokens, seps, parts, mol,
                   rendered, field, again, calc, rdata, rform, session,
                   substances, view, legacy, reqs>>

\* DashboardView.get(request)
DashboardGet ==
    /\ dash.requests < MaxRequests
    /\ dash' = [dash EXCEPT !.response = "get", !.rendered = dash.stored,
                            !.requests = dash.requests + 1]
    /\ pc' = "got"
    /\ UNCHANGED <<post, args, result, form, raw, tokens, seps, parts, mol,
                   rendered, field, again, calc, rdata, rform, session,
                   substances, view, legacy, reqs>>

NextDash == DashboardPost \/ DashboardGet

SpecDash == InitDash /\ [][NextDash]_vars

--------------------------------------------------------------------------
(* Vocabulary of the properties: the submitted values as physical           *)
(* quantities n/d * 10^e in base units (mol/L, L), read off the submitted   *)
(* number and the prefix of its unit                                        *)

CalcDone == pc = "calculated"
FormDone == pc = "cleaned"

GivenSlots == {k \in Slots : post[k].given}
AbsentSlots == Slots \ GivenSlots
TheAbsent == CHOOSE k \in Slots : ~post[k].given

OneAbsent == Cardinality(AbsentSlots) = 1
AllGivenPositive == \A k \in GivenSlots : post[k].val > 0
SomeGivenNonPositive == \E k \in GivenSlots : post[k].val <= 0

\* slot k completed with the calculator's answer where the slot was empty
Phys(k) ==
    IF post[k].given
    THEN [n |-> post[k].val, d |-> 1, e |-> UnitPower(post[k].unit)]
    ELSE [n |-> result.missing_value.num, d |-> result.missing_value.den,
          e |-> result.missing_value.mexp + result.missing_value.upow]

\* c1 * v1 = c2 * v2 on the completed quadruple
Conserved ==
    EqScaled(Phys("c1").n * Phys("v1").n * Phys("c2").d * Phys("v2").d,
             Phys("c1").e + Phys("v1").e,
             Phys("c2").n * Phys("v2").n * Phys("c1").d * Phys("v1").d,
             Phys("c2").e + Phys("v2").e)

\* the answer is a concentration for c1/c2 and a volume for v1/v2
RightDimension(k) ==
    /\ result.missing_value.mol = UnitMol(BaseUnit(k))
    /\ result.missing_value.liter = UnitLiter(BaseUnit(k))

\* a < b and a = b for two submitted slots, as physical quantities
PhysLess(a, b) ==
    LtScaled(post[a].val, UnitPower(post[a].unit), post[b].val, UnitPower(post[b].unit))
PhysEqual(a, b) ==
    EqScaled(post[a].val, UnitPower(post[a].unit), post[b].val, UnitPower(post[b].unit))

VolumesReversed == post["v1"].given /\ post["v2"].given /\ ~PhysLess("v1", "v2")
ConcentrationsReversed == post["c1"].given /\ post["c2"].given /\ PhysLess("c1", "c2")

--------------------------------------------------------------------------
(* Properties *)

\* C1: with exactly one of c1, v1, c2, v2 absent and the other three positive,
\* calculate returns the absent slot's value and the completed quadruple
\* satisfies c1*v1 = c2*v2 in common units, for every combination of unit
\* prefixes on the three inputs.
C1_Conservation ==
    (CalcDone /\ OneAbsent /\ AllGivenPositive) =>
        /\ result.status = "ok"
        /\ RightDimension(TheAbsent)
        /\ Conserved

\* C1 witness: a solved dilution whose three inputs carry three different prefixes
C1_Witness ==
    /\ CalcDone /\ OneAbsent /\ AllGivenPositive
    /\ result.status = "ok"
    /\ result.missing_property = "c1"
    /\ post["v1"].unit = "L" /\ post["c2"].unit = "mmol/L" /\ post["v2"].unit = "uL"
    /\ post["v1"].val = 2 /\ post["c2"].val = 1 /\ post["v2"].val = 1

\* C2: calculate raises ValueError exactly when the number of absent slots is
\* not one, and names the absent slot when it returns; SolutionForm.clean
\* raises its count error exactly when the cleaned data does not hold three
\* values, and a submission without exactly one absent slot is never valid.
C2_ExactlyOneAbsent ==
    /\ CalcDone =>
        /\ (result.status = "ValueError") <=> ~OneAbsent
        /\ result.status = "ok" =>
              /\ result.missing_property \in AbsentSlots
              /\ AbsentSlots = {result.missing_property}
    /\ FormDone =>
        /\ (form.error = "count") <=>
              Cardinality({k \in Slots : Cleaned(post)[k].given}) # 3
        /\ ~OneAbsent => ~is_valid(form)

\* C2 witness: calculate refused a submission with two absent slots
C2_Witness ==
    /\ CalcDone
    /\ Cardinality(AbsentSlots) = 2
    /\ result.status = "ValueError"

\* C3: the form is rejected whenever a provided value is zero or negative,
\* whichever slot is absent; with three values provided and none negative the
\* rejection is the non-positive error of clean().
C3_NonPositiveRejected ==
    FormDone =>
        /\ SomeGivenNonPositive => ~is_valid(form)
        /\ (Cardinality(GivenSlots) = 3 /\ SomeGivenNonPositive
              /\ \A k \in GivenSlots : post[k].val >= 0)
           => form.error = "nonpositive"

\* C3 witness: a form with a zero initial volume, rejected by clean()
C3_Witness ==
    /\ FormDone
    /\ AbsentSlots = {"c2"}
    /\ post["v1"].val = 0 /\ post["c1"].val = 1 /\ post["v2"].val = 2
    /\ form.error = "nonpositive"
    /\ ~is_valid(form)

\* C4: calculate fails whenever a provided value is zero or negative; it never
\* returns a result computed from such an input.
C4_CalculateRejectsNonPositive ==
    (CalcDone /\ SomeGivenNonPositive) => result.status # "ok"

\* C5: the form is rejected when v1 >= v2 or c1 < c2 as physical quantities
\* (after conversion to liter and mol/liter), c1 = c2 is accepted, and for
\* three positive values the verdict is decided by these two comparisons alone.
C5_OrderingByPhysicalQuantity ==
    FormDone =>
        /\ VolumesReversed => ~is_valid(form)
        /\ ConcentrationsReversed => ~is_valid(form)
        /\ (OneAbsent /\ AllGivenPositive) =>
              (is_valid(form) <=> (~VolumesReversed /\ ~ConcentrationsReversed))
        /\ (OneAbsent /\ AllGivenPositive /\ post["c1"].given /\ post["c2"].given
              /\ PhysEqual("c1", "c2")) => is_valid(form)

\* C5 witness: 2 mL diluted to 1 L is accepted although 2 >= 1 as raw numbers
C5_Witness ==
    /\ FormDone
    /\ post["v1"].given /\ post["v1"].val = 2 /\ post["v1"].unit = "mL"
    /\ post["v2"].given /\ post["v2"].val = 1 /\ post["v2"].unit = "L"
    /\ is_valid(form)

\* C6: calculate fails instead of returning a result when v1 >= v2 or c1 < c2
\* among the provided values (stated for positive values, so that the ordering
\* alone decides).
C6_CalculateRejectsReversed ==
    (CalcDone /\ AllGivenPositive /\ (VolumesReversed \/ ConcentrationsReversed))
        => result.status # "ok"

\* the mass the claim expects: (c2 in mol/L) * (v2 in L) * mw, as n * 10^e
MassIs(mw) ==
    /\ result.has_mass
    /\ EqScaled(result.mass_g.num, result.mass_g.mexp,
                post["c2"].val * post["v2"].val * mw,
                UnitPower(post["c2"].unit) + UnitPower(post["v2"].unit))

FinalPairGiven == post["c2"].given /\ post["v2"].given

C8_MassOmitted ==
    (/\ CalcDone /\ OneAbsent /\ post[Divisor(TheAbsent)].val # 0
     /\ \/ TheAbsent \in {"c2", "v2"}
        \/ ~args.mw_given /\ args.formula = NoFormula
        \/ ~args.mw_given /\ args.formula # NoFormula /\ ~Resolvable(args.formula))
    => /\ result.status = "ok"
       /\ ~result.has_mass
       /\ result.missing_property = TheAbsent
       /\ RightDimension(TheAbsent)

\* C8 witness: c2 is the absent slot, a molecular weight is given, and the
\* result carries the computed c2 and no mass
C8_Witness ==
    /\ CalcDone /\ AbsentSlots = {"c2"} /\ AllGivenPositive
    /\ args.mw_given /\ args.mw > 0
    /\ result.status = "ok" /\ result.missing_property = "c2"
    /\ ~result.has_mass

--------------------------------------------------------------------------
(* Properties of parse_list *)

ParseDone == pc = "parsed"

MultiCharacter == \A i \in 1..Len(tokens) : Len(tokens[i]) >= 2

Range(f) == { f[i] : i \in DOMAIN f }

\* no returned token is empty, is "+", or holds a separator character
CleanParts ==
    \A j \in 1..Len(parts) :
        /\ parts[j] # <<>>
        /\ parts[j] # <<"+">>
        /\ \A i \in 1..Len(parts[j]) : parts[j][i] \notin SepChars

\* C9: a sequence of multi-character species tokens gives the same token list
\* whether the tokens are separated by whitespace, a comma, a semicolon, a "+"
\* directly between two tokens or an isolated "+"; that list is the sequence
\* itself, and no returned token is empty, "+", or holds a separator.
C9_SeparatorsEquivalent ==
    (ParseDone /\ MultiCharacter) => (parts = tokens /\ CleanParts)

\* C10: a token ending in "+" or "-" that is followed by a separator or the
\* end of the input is returned with its sign attached, and only the isolated
\* "+" is dropped: with separators of whitespace, comma, semicolon and
\* isolated "+", the returned list is the token sequence unchanged.
C10_ChargeMarkersKept ==
    (ParseDone /\ PlusBetween \notin Range(seps)) => (parts = tokens /\ CleanParts)

\* C10 witness: "H2+ + H-" parsed into the two charged tokens
C10_Witness ==
    /\ ParseDone
    /\ tokens = << <<"H", "2", "+">>, <<"H", "-">> >>
    /\ seps = << <<" ", "+", " ">> >>
    /\ parts = tokens

--------------------------------------------------------------------------
(* Properties of smiles_to_formula *)

RenderDone == pc = "rendered"

\* symbol and count of element e as the formula shows them
Term(e) ==
    IF mol.counts[e] = 0 THEN <<>>
    ELSE IF mol.counts[e] = 1 THEN Chars(e)
    ELSE Chars(e) \o Dec(mol.counts[e])

ChargeText ==
    CASE mol.charge = 0 -> <<>>
      [] mol.charge = 1 -> <<"+">>
      [] mol.charge = 0 - 1 -> <<"-">>
      [] mol.charge > 1 -> Dec(mol.charge) \o <<"+">>
      [] mol.charge < 0 - 1 -> Dec(0 - mol.charge) \o <<"-">>

\* C14: the rendered formula is carbon, then hydrogen (with or without
\* carbon), then the other elements in alphabetical order, each present
\* element once with its count unless the count is 1, then the total charge
\* as "n+" or "n-" with n left out when it is 1 and nothing for charge 0.
C14_RenderingOrder ==
    RenderDone =>
        rendered = Term("C") \o Term("H") \o Term("Br") \o Term("Cl")
                     \o Term("F") \o Term("N") \o Term("O") \o ChargeText

\* hydrogen without carbon, ahead of an element that sorts before it, and a
\* charge of magnitude above one
C14_Witness ==
    /\ RenderDone
    /\ mol.counts["C"] = 0
    /\ mol.counts["H"] = 2
    /\ mol.counts["Br"] = 1
    /\ mol.charge = 0 - 2
    /\ rendered = <<"H", "2", "B", "r">> \o Term("Cl") \o Term("F") \o Term("N")
                    \o Term("O") \o <<"2", "-">>

--------------------------------------------------------------------------
(* Properties of FormulaListField.validate and clean *)

FieldDone == pc \in {"field_cleaned", "recleaned"}

\* whether a parser accepts a token
Succeeds(parser, t) ==
    IF parser = "formula" THEN from_formula(t) ELSE read_smiles(t).ok

\* the order of the parsers for a token
OrderFor(t) ==
    (IF looks_like_formula(t) THEN <<"formula">> ELSE <<>>) \o <<"smiles", "formula">>

IsPrefix(a, b) == Len(a) <= Len(b) /\ a = SubSeq(b, 1, Len(a))

NotAFormula == <<"N", "o", "t", "A", "F", "o", "r", "m", "u", "l", "a">>

\* C11: for every token validate processed, the parsers were tried in the
\* order (a) formula parser, only for a token that looks like a formula,
\* (b) SMILES decoder, (c) formula parser; each next one only after the one
\* before failed, stopping at the first success, and the validation error
\* only after all of them failed.  A token that looks like a formula and
\* parses as one never reaches the decoder and is kept unchanged; one whose
\* formula parse fails goes on to the decoder.
C11_ResolutionOrder ==
    FieldDone =>
        \A i \in 1..Len(field.tried) :
            LET t == field.parsed[i]
                tr == field.tried[i]
                failed == ~field.ok /\ i = Len(field.tried)
            IN  /\ Len(tr) >= 1
                /\ IsPrefix(tr, OrderFor(t))
                /\ \A j \in 1..(Len(tr) - 1) : ~Succeeds(tr[j], t)
                /\ IF failed
                   THEN /\ tr = OrderFor(t)
                        /\ ~Succeeds(tr[Len(tr)], t)
                        /\ field.code = "invalid_formula"
                   ELSE Succeeds(tr[Len(tr)], t)
                /\ (looks_like_formula(t) /\ from_formula(t)) => tr = <<"formula">>
                /\ (looks_like_formula(t) /\ ~from_formula(t)) =>
                       (Len(tr) >= 2 /\ tr[2] = "smiles")
                /\ field.ok =>
                       field.value[i] = IF tr[Len(tr)] = "formula" THEN t
                                        ELSE smiles_to_formula(t).formula

\* a formula-like token that is no formula was decoded as SMILES, and a
\* formula-like token that is a formula was kept without decoding
C11_Witness ==
    /\ FieldDone
    /\ field.ok
    /\ field.parsed = << NotAFormula, <<"N", "H", "4", "+">> >>
    /\ field.tried = << <<"formula", "smiles">>, <<"formula">> >>
    /\ field.value = << <<"H", "4", "F", "N", "O", "2">>, <<"N", "H", "4", "+">> >>

\* a token without charge suffix, without an uppercase letter followed by a
\* lowercase one, and not an alphabetic token of at most two letters
PlainToken(t) ==
    /\ ~charge_suffix_match(t)
    /\ ~upper_lower_match(t)
    /\ ~(isalpha(t) /\ Len(t) <= 2)

\* C12 (as stated): every plain token that is a valid formula is returned
\* unchanged by clean, the formula parser being tried first, also when the
\* token is decodable as SMILES.
C12_ValidFormulaUnchanged ==
    (FieldDone /\ field.ok) =>
        \A i \in 1..Len(field.parsed) :
            (PlainToken(field.parsed[i]) /\ from_formula(field.parsed[i])) =>
                /\ field.value[i] = field.parsed[i]
                /\ field.tried[i][1] = "formula"

\* C12 (amended): for every plain token that is a valid formula the SMILES
\* decoder is tried first; clean returns the token unchanged when the decoder
\* rejects it and the SMILES-derived formula when the decoder accepts it.
C12_ValidFormulaUnchangedUnlessSmiles ==
    (FieldDone /\ field.ok) =>
        \A i \in 1..Len(field.parsed) :
            LET t == field.parsed[i]
            IN  (PlainToken(t) /\ from_formula(t)) =>
                    /\ field.tried[i][1] = "smiles"
                    /\ field.value[i] = IF read_smiles(t).ok
                                        THEN smiles_to_formula(t).formula
                                        ELSE t

\* 'CCO', a formula and a SMILES, replaced; 'CO2', a formula only, kept
C12_Witness ==
    /\ FieldDone
    /\ field.ok
    /\ field.parsed = << <<"C", "C", "O">>, <<"C", "O", "2">> >>
    /\ from_formula(<<"C", "C", "O">>)
    /\ field.value = << <<"C", "2", "H", "6", "O">>, <<"C", "O", "2">> >>

\* C13: for every accepted input, clean of the output tokens joined with
\* spaces is accepted and returns the same list.
C13_Idempotent ==
    pc = "recleaned" => (again.ok /\ again.value = field.value)

Unresolvable(t) == ~from_formula(t) /\ ~read_smiles(t).ok

\* C15: on success the list holds one entry per input token in the input
\* order, the token itself or its SMILES-derived formula; on a token that
\* cannot be resolved the error names the first such token of the input and
\* the list is as it was before validate; validate succeeds exactly when
\* every token can be resolved.
C15_AllOrNothing ==
    (FieldDone /\ field.parsed # <<>>) =>
        /\ field.ok <=> \A i \in 1..Len(field.parsed) : ~Unresolvable(field.parsed[i])
        /\ field.ok =>
            /\ Len(field.value) = Len(field.parsed)
            /\ \A i \in 1..Len(field.parsed) :
                 \/ /\ field.value[i] = field.parsed[i]
                    /\ from_formula(field.parsed[i])
                 \/ /\ field.value[i] = smiles_to_formula(field.parsed[i]).formula
                    /\ read_smiles(field.parsed[i]).ok
        /\ ~field.ok =>
            /\ field.code = "invalid_formula"
            /\ field.value = field.parsed
            /\ \E k \in 1..Len(field.parsed) :
                 /\ field.token = field.parsed[k]
                 /\ Unresolvable(field.parsed[k])
                 /\ \A j \in 1..(k - 1) : ~Unresolvable(field.parsed[j])

\* a SMILES token resolved ahead of a token that cannot be resolved
C15_Witness ==
    /\ FieldDone
    /\ ~field.ok
    /\ field.parsed = << <<"C", "C", "O">>, <<")">> >>
    /\ field.token = <<")">>
    /\ field.value = field.parsed

--------------------------------------------------------------------------
(* Properties of the calculators *)

\* C16: neither calculate lets an exception out: when the library raised,
\* calculate returns None; when the library returned a value, calculate
\* returns that value.
C16_CalculatorsNeverRaise ==
    pc = "returned" =>
        /\ ~calc.raised
        /\ calc.lib.raises => calc.none
        /\ ~calc.lib.raises => (~calc.none /\ calc.value = calc.lib.value)

\* balance_stoichiometry raised on a list that holds no formula
C16_Witness ==
    /\ pc = "returned"
    /\ calc.op = "reaction_balancer"
    /\ calc.arg.reactants = <<"notAFormula">>
    /\ calc.lib.raises
    /\ calc.none
    /\ ~calc.raised

--------------------------------------------------------------------------
(* Properties of ChemicalReactionForm *)

ReactionDone == pc = "reaction_cleaned"

\* text is cut at position i, the first "=" in it, into left and right
CutAtFirstEquals(text, left, right) ==
    \E i \in 1..Len(text) :
        /\ text[i] = "="
        /\ \A j \in 1..(i - 1) : text[j] # "="
        /\ left = SubSeq(text, 1, i - 1)
        /\ right = SubSeq(text, i + 1, Len(text))

\* C17: a reactant text with "=" next to an empty product text is cut at its
\* first "=" into the reactant and the product input; likewise a product
\* text with "=" next to an empty reactant text; in every other case the
\* form keeps the submitted data, "=" or not.
C17_SplitAtFirstEquals ==
    ReactionDone =>
        IF HasEquals(rdata.reactant) /\ rdata.product = <<>>
        THEN CutAtFirstEquals(rdata.reactant, rform.data.reactant, rform.data.product)
        ELSE IF HasEquals(rdata.product) /\ rdata.reactant = <<>>
        THEN CutAtFirstEquals(rdata.product, rform.data.reactant, rform.data.product)
        ELSE rform.data = rdata

\* 'H2=O=O' alone is cut at the first "=", the SMILES 'O=O' is the product
C17_Witness ==
    /\ ReactionDone
    /\ rdata.reactant = <<"H", "2", "=", "O", "=", "O">>
    /\ rdata.product = <<>>
    /\ rform.data.reactant = <<"H", "2">>
    /\ rform.data.product = <<"O", "=", "O">>
    /\ rform.product.value = << <<"O", "2">> >>

--------------------------------------------------------------------------
(* Properties of add_previous_substances *)

NoDuplicates(list) ==
    \A i, j \in 1..Len(list) : list[i] = list[j] => i = j

NoEmpty(list) == \A i \in 1..Len(list) : list[i] # ""

\* the position at which a substance is first seen in the call's argument
FirstSeen(subs, x) == CHOOSE i \in 1..Len(subs) : subs[i] = x /\ \A j \in 1..(i - 1) : subs[j] # x

\* the step from list old to list new under a call with argument subs keeps
\* old as a prefix and appends every substance of subs that is not empty and
\* not in old, once, in the order of first appearance in subs
AppendsNewOnce(old, new, subs) ==
    /\ IsPrefix(old, new)
    /\ NoDuplicates(new)
    /\ { new[i] : i \in (Len(old) + 1)..Len(new) }
         = { subs[i] : i \in 1..Len(subs) } \ ({""} \cup { old[i] : i \in 1..Len(old) })
    /\ \A i, j \in (Len(old) + 1)..Len(new) :
         i < j => FirstSeen(subs, new[i]) < FirstSeen(subs, new[j])

\* C19: the stored list never holds a duplicate or an empty entry; every
\* call keeps the stored entries at their positions and appends each new
\* substance once, in first-seen order; a second call with the same
\* substances changes nothing.
C19_AppendOnlyLog ==
    /\ [](NoDuplicates(session) /\ NoEmpty(session))
    /\ [](\A subs \in SubstanceLists :
            add_previous_substances(add_previous_substances(session, subs), subs)
              = add_previous_substances(session, subs))
    /\ [][AppendsNewOnce(session, session', substances')]_vars

\* a call naming a new substance twice, after an earlier call
C19_Witness ==
    /\ pc = "added"
    /\ session = <<"H2O", "NaCl">>
    /\ substances = <<"NaCl", "NaCl">>

--------------------------------------------------------------------------
(* Properties of CalculateDilutionView.process_calculation *)

ViewDone == pc = "processed"

\* slot k completed with the result dict where the slot was empty: 'value'
\* read in the unit named by 'unit'
Shown(k) ==
    IF post[k].given
    THEN [n |-> post[k].val, d |-> 1, e |-> UnitPower(post[k].unit)]
    ELSE [n |-> view.value.num, d |-> view.value.den,
          e |-> view.value.mexp + UnitPower(view.unit)]

\* C20: in a returned result dict, 'value' in the unit 'unit' completes the
\* three inputs so that c1*v1 = c2*v2, for every prefix of the inputs and
\* every unit selected for the empty field.
C20_ShownValueConserves ==
    (ViewDone /\ view.status = "ok") =>
        EqScaled(Shown("c1").n * Shown("v1").n * Shown("c2").d * Shown("v2").d,
                 Shown("c1").e + Shown("v1").e,
                 Shown("c2").n * Shown("v2").n * Shown("c1").d * Shown("v1").d,
                 Shown("c2").e + Shown("v2").e)

\* the submitted pair is in quantity_map and violates the ordering
MappedVolumesReversed ==
    /\ InMap(post, "v1") /\ InMap(post, "v2") /\ ~PhysLess("v1", "v2")
MappedConcentrationsReversed ==
    /\ InMap(post, "c1") /\ InMap(post, "c2") /\ PhysLess("c1", "c2")

\* None was returned and a message was recorded
ViewFailed ==
    /\ view.status \in {"validation_error", "error"}
    /\ view.message # ""
    /\ view.property = "" /\ view.unit = "" /\ ~view.has_mass

\* C21: process_calculation never lets an exception out: it returns a result
\* dict or None.  A wrong number of provided values, a non-positive value, an
\* ordering violation, a provided value whose unit selector is empty and a
\* failure inside the calculator each end with None and a recorded message;
\* and whenever None is returned the session's previous_substances is what it
\* was before the call.
C21_ViewNeverRaises ==
    /\ [](ViewDone =>
            /\ view.status \in {"ok", "validation_error", "error"}
            /\ view.status # "ok" => ViewFailed
            /\ Cardinality(GivenSlots) # 3 => ViewFailed
            /\ SomeGivenNonPositive => ViewFailed
            /\ (MappedVolumesReversed \/ MappedConcentrationsReversed) => ViewFailed
            /\ (\E k \in GivenSlots : post[k].unit = "") => ViewFailed
            /\ (view_checks(post) = "" /\ calculate(quantity_map(post), args).status # "ok")
                  => (ViewFailed /\ view.status = "error"))
    /\ [][(ViewDone' /\ view'.status # "ok") => session' = session]_vars

\* three positive values, one of them without a unit: the calculator is
\* handed two quantities and raises; the stored list is kept
C21_Witness ==
    /\ ViewDone
    /\ Cardinality(GivenSlots) = 3
    /\ post["c1"].given /\ post["c1"].unit = ""
    /\ args.formula = "XYZ"
    /\ view.status = "error" /\ view.message = "ValueError"
    /\ session = <<"NaCl">>

\* C22: clean rejects every input text longer than the 100 characters
\* declared as max_length for the field.
C22_MaxLengthEnforced ==
    (FieldDone /\ Len(raw) > max_length) => ~field.ok

--------------------------------------------------------------------------
(* Properties of the unit-less dilution functions *)

LegacyDone == pc = "legacy_returned"

\* argument k completed with the returned number where the argument was None
Completed(k) ==
    IF post[k].given THEN [n |-> post[k].val, d |-> 1]
    ELSE [n |-> legacy.num, d |-> legacy.den]

\* C23: with exactly one argument None and the other three positive, each of
\* the two functions returns a number x that makes c1*v1 = c2*v2 hold,
\* whichever argument is missing; with any other number of None arguments
\* they return None.
C23_LegacyConservation ==
    LegacyDone =>
        /\ (OneAbsent /\ AllGivenPositive) =>
              /\ ~legacy.none /\ ~legacy.raised
              /\ Completed("c1").n * Completed("v1").n * Completed("c2").d * Completed("v2").d
                   = Completed("c2").n * Completed("v2").n * Completed("c1").d * Completed("v1").d
        /\ ~OneAbsent => legacy.none

--------------------------------------------------------------------------
(* Properties of DashboardView *)

\* the last request was a POST / a GET
Posted == pc = "posted"
Got == pc = "got"

\* the stored context holds no field value and no result
HoldsNothing(context) == context = EmptyContext

\* the field entries of the stored context, molecular_weight apart
OtherFields(fields) == [fields EXCEPT !.molecular_weight = Text(<<>>)]

\* C24 (as stated): after a POST with action 'reset' the stored context is
\* empty, and so is what the next GET renders; after any other POST the
\* stored context holds every field value submitted in that POST, and the
\* next GET renders them.
C24_ResetClearsElseKeeps ==
    /\ (Posted /\ dash.action = "reset") => HoldsNothing(dash.stored)
    /\ (Posted /\ dash.action # "reset") =>
          (~dash.stored.empty /\ dash.stored.fields = ContextFields(dash.posted))
    /\ Got => dash.rendered = dash.stored

\* C24 (amended): as above, except that after a POST with action 'use_mw'
\* the stored molecular_weight is the calculator's result for the submitted
\* formula (None when there is none) in place of the submitted value; every
\* other field is the submitted one.
C24_ResetClearsElseKeepsButUseMW ==
    /\ (Posted /\ dash.action = "reset") => HoldsNothing(dash.stored)
    /\ (Posted /\ dash.action # "reset") =>
          /\ ~dash.stored.empty
          /\ OtherFields(dash.stored.fields) = OtherFields(ContextFields(dash.posted))
          /\ IF dash.action = "use_mw"
             THEN /\ dash.stored.fields.molecular_weight.kind \in {"number", "None"}
                  /\ dash.stored.mw_result = MWKey(dash.stored.fields.molecular_weight)
             ELSE dash.stored.fields.molecular_weight = Text(dash.posted.molecular_weight)
    /\ Got => dash.rendered = dash.stored
    /\ (Got /\ dash.action = "reset") => HoldsNothing(dash.rendered)

\* a reset that carries field values, sent as the third request of the session
C24_Witness ==
    /\ Posted
    /\ dash.requests = 3
    /\ dash.action = "reset"
    /\ dash.posted.formula = "H2O"
    /\ dash.stored = EmptyContext

\* what the calc_dilution branch was handed
DashTexts == {dash.posted.c1, dash.posted.v1, dash.posted.c2, dash.posted.v2}
DashEmptyCount == Cardinality({k \in Slots : ~DashSlot(dash.posted, k).given})
DashZeroDivisor ==
    /\ DashEmptyCount = 1
    /\ LET miss == CHOOSE k \in Slots : ~DashSlot(dash.posted, k).given
       IN  DashSlot(dash.posted, Divisor(miss)).val = 0

\* C25: a POST with action 'calc_dilution' is answered with the rendered
\* page; a text that is not a number, a number of empty fields other than
\* one, or a division by zero gives dilution_result = {'property': 'Error',
\* 'value': message, 'unit': ''}; any other input gives the solved property;
\* and the stored context holds the submitted field values either way.
C25_DilutionNeverFails ==
    (Posted /\ dash.action = "calc_dilution") =>
        LET failing ==
                \/ \E t \in DashTexts \cup {dash.posted.molecular_weight} : BadNumber(t)
                \/ DashEmptyCount # 1
                \/ DashZeroDivisor
            r == dash.stored.dilution_result
        IN  /\ dash.response = "render"
            /\ r.set
            /\ failing => (r.kind = "error" /\ r.property = "Error" /\ r.text # "")
            /\ ~failing => (r.kind = "result" /\ ~DashSlot(dash.posted, r.property).given)
            /\ dash.stored.fields = ContextFields(dash.posted)

\* a text that is not a number in the initial volume
C25_Witness ==
    /\ Posted
    /\ dash.action = "calc_dilution"
    /\ dash.posted.v1 = NotANumber
    /\ dash.stored.dilution_result = DashError("ValueError")
    /\ dash.stored.fields.v1 = NotANumber
    /\ dash.response = "render"

--------------------------------------------------------------------------
(* Properties of the form and the calculator together *)

\* slot a is less than slot b on the completed quadruple
CompletedLess(a, b) ==
    LtScaled(Phys(a).n * Phys(b).d, Phys(a).e, Phys(b).n * Phys(a).d, Phys(b).e)

\* C26: for every input that SolutionForm accepts, the three provided values
\* and the value calculate returns satisfy v1 < v2 and c1 >= c2.
C26_CompletedOrdering ==
    (CalcDone /\ is_valid(full_clean(post))) =>
        /\ result.status = "ok"
        /\ CompletedLess("v1", "v2")
        /\ ~CompletedLess("c1", "c2")

--------------------------------------------------------------------------
(* Properties of the rendered formula as a text to be read back *)

\* C27: no other graph, that is no other element counts and total charge,
\* renders to the formula text rendered for this one; in particular not the
\* graph with one atom more of an element and a charge of smaller magnitude.
C27_RenderingUnambiguous ==
    RenderDone =>
        \A other \in [counts : [Elements -> 0..MaxCount], charge : Charges] :
            render_formula(other) = rendered => other = mol

--------------------------------------------------------------------------
(* Properties of parse_list on charged tokens *)

\* the token holds no whitespace, comma or semicolon
Unbroken(t) == \A i \in 1..Len(t) : t[i] \notin SepChars

\* C28: when every token holds no whitespace, comma or semicolon and ends in
\* a charge suffix as the validator reads it (a sign followed by zero or
\* more digits), parse_list returns each token as one unchanged token.
C28_ChargedTokensIntact ==
    (/\ ParseDone
     /\ \A i \in 1..Len(tokens) : Unbroken(tokens[i]) /\ charge_suffix_match(tokens[i]))
    => parts = tokens

--------------------------------------------------------------------------
(* Properties of the ordering checks as a chain *)

VolumePair == post["v1"].given /\ post["v2"].given
ConcentrationPair == post["c1"].given /\ post["c2"].given

\* the ordering checks as if / else-if: the concentration check is looked at
\* only when the volume pair is not complete
OrderingElseIf(cd, present(_, _)) ==
    IF present(cd, "v1") /\ present(cd, "v2")
    THEN (IF ~MagnitudeLess(Provided(cd, "v1"), Provided(cd, "v2")) THEN "volume" ELSE "")
    ELSE IF present(cd, "c1") /\ present(cd, "c2")
    THEN (IF MagnitudeLess(Provided(cd, "c1"), Provided(cd, "c2"))
          THEN "concentration" ELSE "")
    ELSE ""

\* the verdict with the count and sign checks ahead of the if / else-if
VerdictElseIf(cd, present(_, _)) ==
    IF Cardinality({k \in Slots : cd[k].given}) # 3 THEN "count"
    ELSE IF \E k \in Slots : cd[k].given /\ cd[k].val <= 0 THEN "nonpositive"
    ELSE OrderingElseIf(cd, present)

IsGiven(cd, k) == cd[k].given

\* C29: with exactly one of c1, v1, c2, v2 absent, exactly one of the pairs
\* (v1, v2) and (c1, c2) is complete; the two independent checks of
\* SolutionForm.clean and of CalculateDilutionView give the verdict of the
\* if / else-if chain; and the older view never reaches its branch for
\* 'neither pair provided'.
C29_IndependentChecksAsElseIf ==
    (FormDone /\ OneAbsent) =>
        /\ VolumePair # ConcentrationPair
        /\ form.error = VerdictElseIf(Cleaned(post), IsGiven)
        /\ view_checks(post) = VerdictElseIf(post, InMap)
        /\ legacy_view_checks(post) # "required"

\* the volume is the empty field and the concentrations are reversed: the
\* second check is the one that rejects
C29_Witness ==
    /\ FormDone
    /\ AbsentSlots = {"v1"}
    /\ AllGivenPositive
    /\ ConcentrationsReversed
    /\ form.error = "concentration"
    /\ view_checks(post) = "concentration"

--------------------------------------------------------------------------
(* Properties of concurrent requests on one session *)

AllWritten == \A r \in Requests : reqs[r].pc = "done"

\* every non-empty substance of request r is in the stored list
Kept(r) ==
    \A i \in 1..Len(reqs[r].subs) :
        reqs[r].subs[i] # "" => Contains(session, reqs[r].subs[i])

\* C30: when two requests of one session have both run
\* add_previous_substances, the stored previous_substances contains the
\* substances added by both, whatever the interleaving.
C30_BothRequestsKept == AllWritten => \A r \in Requests : Kept(r)

====
